---- MODULE Spec2Model ----
(***************************************************************************)
(* Gomas Legal Engine: the ingestion pipeline (main.py) over the SQLite    *)
(* registry, job queue and FTS mirror (database.py).                       *)
(*                                                                         *)
(* Workers are invocations of process_document_sync, one per watcher       *)
(* notification.  Every database call is one transaction and therefore one *)
(* step; the external stages (OCR, normalize, classify, index) either      *)
(* raise or succeed and record their result.                               *)
(***************************************************************************)
EXTENDS Integers, Sequences, FiniteSets, TLC

\* ---------------------------------------------------------------- bounds
MaxSubmits == 2          \* files written into the input directory
MaxFaults  == 3          \* failures the environment injects (timeouts, I/O and stage errors)
MaxPolls   == 3          \* calls of get_next_job that find a pending job

\* ------------------------------------------------------- program constants
MAX_RETRIES == 3         \* config.py: MAX_RETRIES default

Workers  == {"w1", "w2"}                 \* concurrent process_document_sync invocations
Pollers  == {"p1", "p2"}                 \* concurrent callers of the job-queue API
Names    == {"a.pdf", "b.pdf"}           \* file names inside a directory
Contents == {"h1", "h2", "bad"}          \* file contents, named by their SHA-256
NoFile   == "none"                       \* the path does not exist
NULL     == "NULL"                       \* SQL NULL
NoId     == 0                            \* Python None for a row id

\* classifier.classify: the type of the best-scoring rule, or the default.
Tipos == {"amparo", "sin_clasificar"}

\* utils.calculate_file_hash: the digest identifies the bytes.
calculate_file_hash(content) == content

\* main.is_valid_pdf: the first four bytes are %PDF; False on OSError.
is_valid_pdf(content) == content \in {"h1", "h2"}

\* Exception messages (str(exc)) raised inside _run_pipeline.
E_STABILIZE == "did not stabilize"
E_MAGIC     == "not a valid PDF"
E_NOINPUT   == "no such file: input"
E_NOPROC    == "no such file: processing"
E_MOVE      == "move failed"
E_OCR       == "OCR failed"
E_NORM      == "normalize failed"
E_CLASS     == "classify failed"
E_INDEX     == "index failed"
StageErrors == {E_OCR, E_NORM, E_CLASS, E_INDEX}

VARIABLES
  input,            \* INPUT_DIR:       name -> content or NoFile
  processing,       \* PROCESSING_DIR:  name -> content or NoFile
  dead_letter,      \* DEAD_LETTER_DIR: name -> content or NoFile
  review_queue,     \* REVIEW_QUEUE_DIR: name -> content or NoFile
  events,           \* on_created notifications not yet handled
  submits,          \* number of files written so far
  injected,         \* number of failures injected so far
  FORCE_INDEXING,   \* config.FORCE_INDEXING, fixed at start-up
  documentos,       \* table documentos: id -> row
  doc_seq,          \* AUTOINCREMENT high-water mark of documentos
  documentos_fts,   \* FTS5 index: postings <<rowid, column, text>>
  job_queue,        \* table job_queue: sequence of rows, id = position
  pc,               \* per worker: position inside process_document_sync
  filepath,         \* per worker: name of the file being processed
  attempt,          \* per worker: loop variable of process_document_sync
  excs,             \* per worker: exceptions logged so far by this invocation
  faults,           \* per worker: failures injected by the environment (history)
  runs,             \* per worker: calls of _run_pipeline so far (history)
  file_hash,        \* per worker: local file_hash of _run_pipeline
  existing,         \* per worker: local existing of _run_pipeline (row id or NoId)
  doc_id,           \* per worker: doc_id of _run_pipeline; kept when the attempt raises
  job_id,           \* per worker: local job_id of _run_pipeline
  dl_doc,           \* per worker: id of the row found by the dead-letter lookup
  result,           \* per worker: how the last invocation ended
  poll_pc,          \* per poller: position inside get_next_job / job handling
  poll_job,         \* per poller: id of the row get_next_job selected
  polls,            \* number of get_next_job calls that found a job so far
  failed_ret,       \* what the last call of mark_job_failed returned ("none" before the first)
  q_pc,             \* position inside SearchEngine.query
  indices,          \* SearchEngine._indices: ids whose index tree is loaded
  ocr_files,        \* per document id: [exists, text] of the file at ocr_path
  tree_text,        \* per document id: what _flatten_nodes yields for its tree
  query,            \* argument query of SearchEngine.query
  doc_ids,          \* argument doc_ids of SearchEngine.query (<< >> = None or [])
  fts_result,       \* the index's matches for the query: [ok, rows by rank]; ok = FALSE: fts_search raises
  target_ids,       \* local target_ids of SearchEngine.query
  q_i,              \* how many entries of target_ids the loop has consumed
  did,              \* loop variable did of SearchEngine.query
  ctx,              \* local ctx of SearchEngine.query
  context_parts,    \* local context_parts of SearchEngine.query
  used_ids,         \* local used_ids of SearchEngine.query
  full_context,     \* local full_context of SearchEngine.query
  llm_calls,        \* calls of llm_client.generate_completion so far (history)
  q_return,         \* what SearchEngine.query returned
  x_pc,             \* position inside QueryEngine._extract_text_for_nodes
  structure,        \* index_data['structure']: nodes [node_id, line_num, nodes]
  md_readable,      \* whether the Markdown file at md_path can be read
  num_lines,        \* number of lines of the Markdown file
  node_ids,         \* argument node_ids of _extract_text_for_nodes
  extracted_chunks, \* local extracted_chunks of _extract_text_for_nodes
  g_pc,             \* position inside llm_utils.generate_completion
  key_valid,        \* is_valid_key(): config.ANTHROPIC_API_KEY starts with "sk-"
  use_cache,        \* argument use_cache of generate_completion
  cached,           \* _CACHE entry of the prompt: [hit, text]
  g_attempt,        \* loop variable attempt of generate_completion
  api_calls,        \* calls of client.messages.create so far (history)
  g_outcomes,       \* how each of these calls ended (history)
  sleeps,           \* the waits of asyncio.sleep so far (history)
  g_result,         \* how generate_completion ended: [state, text]
  d_pc,             \* position inside QueryEngine.query_document
  index_found,      \* whether load_index(doc_id) finds the index file
  md_exists,        \* whether the Markdown file of the document exists
  response_text,    \* local response_text of _tree_search: [fence, json, node_list]
  thinking_result,  \* local thinking_result of query_document: [type, node_list]
  d_calls,          \* the generate_completion calls of query_document so far (history)
  d_return,         \* how query_document ended: [state, answer, error]
  m_pc,             \* position inside main(): "boot", "scan" or "watching"
  scan_list,        \* local existing of main(): the files of the start-up scan still to process
  f_pc,             \* position inside database.fts_search
  f_table,          \* the rows fts_search reads: sequence of [nombre_archivo, tipo_documento]
  f_query,          \* argument query of fts_search
  f_limit,          \* argument limit of fts_search
  f_return,         \* how fts_search ended: [state, rows]
  c_pc,             \* whether a generate_completion request has been served
  _CACHE,           \* llm_utils._CACHE in insertion order: entries [key, text, prompt]
  c_prompt,         \* argument prompt of the last generate_completion request
  c_return          \* what that request returned: [text, cached, prompt]

fsVars   == <<input, processing, dead_letter, review_queue>>
dbVars   == <<documentos, doc_seq, documentos_fts, job_queue>>
wVars    == <<pc, filepath, attempt, excs, faults, runs, file_hash, existing, doc_id, job_id, dl_doc,
             result, injected>>
pollVars == <<poll_pc, poll_job, polls, failed_ret>>
envVars  == <<events, submits, FORCE_INDEXING>>
pipeVars == <<fsVars, dbVars, wVars, pollVars, envVars>>
qVars    == <<q_pc, indices, ocr_files, tree_text, query, doc_ids, fts_result, target_ids, q_i, did,
             ctx, context_parts, used_ids, full_context, llm_calls, q_return>>
xVars    == <<x_pc, structure, md_readable, num_lines, node_ids, extracted_chunks>>
gVars    == <<g_pc, key_valid, use_cache, cached, g_attempt, api_calls, g_outcomes, sleeps, g_result>>
dVars    == <<d_pc, index_found, md_exists, response_text, thinking_result, d_calls, d_return>>
mVars    == <<m_pc, scan_list>>
fVars    == <<f_pc, f_table, f_query, f_limit, f_return>>
cVars    == <<c_pc, _CACHE, c_prompt, c_return>>
oVars    == <<mVars, fVars, cVars>>
rVars    == <<qVars, xVars, gVars, dVars, oVars>>
vars     == <<fsVars, dbVars, wVars, pollVars, envVars, rVars>>

\* ------------------------------------------------------------ the database

\* Row inserted by register_document: the named columns plus the defaults.
NewDocumento(nombre, h) ==
  [ nombre_archivo    |-> nombre,
    hash_sha256       |-> h,
    estado            |-> "recibido",
    error_mensaje     |-> NULL,
    tipo_documento    |-> NULL,
    requiere_revision |-> FALSE,
    texto_ocr         |-> NULL,
    resumen           |-> NULL,
    etiquetas         |-> NULL,
    entidades         |-> NULL ]

\* Row inserted by enqueue_job: doc_id and estado plus the defaults.
NewJob(d) ==
  [ doc_id |-> d, intentos |-> 0, estado |-> "pending", ultimo_error |-> NULL ]

COALESCE(v) == IF v = NULL THEN "" ELSE v

\* The columns of the virtual table documentos_fts.
FtsColumns ==
  {"nombre_archivo", "tipo_documento", "etiquetas", "resumen", "entidades", "texto_ocr"}

\* The values a trigger hands to documentos_fts for a row of documentos.
FtsRow(row) == [ c \in FtsColumns |-> COALESCE(row[c]) ]

\* What the FTS5 index keeps of those values for rowid id: one posting per
\* column that has text (an empty string has no tokens).
Postings(id, vals) == { <<id, c, vals[c]>> : c \in { k \in FtsColumns : vals[k] # "" } }

\* INSERT INTO documentos_fts(rowid, ...): the postings are added.
FtsInsert(fts, id, vals) == fts \cup Postings(id, vals)

\* INSERT INTO documentos_fts(documentos_fts, rowid, ...) VALUES ('delete', ...):
\* the postings of exactly these values are removed.
FtsDelete(fts, id, vals) == fts \ Postings(id, vals)

documentos_ai_Nothing(fts, id, new) == fts

\* Trigger documentos_ai: AFTER INSERT, the new row is indexed.
documentos_ai(fts, id, new) == FtsInsert(fts, id, FtsRow(new))

\* Trigger documentos_ad: AFTER DELETE, 'delete' of the old row.
documentos_ad(fts, id, old) == FtsDelete(fts, id, FtsRow(old))

\* Variant: the update trigger indexes the new values without the 'delete'.
documentos_au_NoDelete(fts, id, old, new) == FtsInsert(fts, id, FtsRow(new))

\* Trigger documentos_au: AFTER UPDATE, 'delete' of the old row, insert of the new.
documentos_au(fts, id, old, new) ==
  FtsInsert(FtsDelete(fts, id, FtsRow(old)), id, FtsRow(new))

\* SELECT * FROM documentos WHERE hash_sha256 = ?  (id of the row, or NoId).
get_document_by_hash(h) ==
  IF \E d \in DOMAIN documentos : documentos[d].hash_sha256 = h
    THEN CHOOSE d \in DOMAIN documentos : documentos[d].hash_sha256 = h
    ELSE NoId

\* Variant: the column hash_sha256 is declared without UNIQUE.
HashTaken_NoUnique(h) == FALSE

\* The UNIQUE constraint on hash_sha256: does inserting h raise IntegrityError?
HashTaken(h) == \E d \in DOMAIN documentos : documentos[d].hash_sha256 = h

\* UPDATE documentos SET ... WHERE id = ?  with the AFTER UPDATE trigger,
\* one transaction.  No row with that id: nothing changes.
UpdateDocumento(id, new) ==
  IF id \in DOMAIN documentos
    THEN /\ documentos' = [documentos EXCEPT ![id] = new]
         /\ documentos_fts' = documentos_au(documentos_fts, id, documentos[id], new)
    ELSE UNCHANGED <<documentos, documentos_fts>>

\* update_document_status: estado and error_mensaje (NULL for an empty message).
update_document_status(row, status, error_msg) ==
  [row EXCEPT !.estado = status,
              !.error_mensaje = IF error_msg # "" THEN error_msg ELSE NULL]

\* update_ocr_data as _run_pipeline calls it (texto_ocr defaults to None -> "").
update_ocr_data(row) ==
  [row EXCEPT !.texto_ocr = "", !.estado = "ocr_ok"]

update_norm_path(row) ==
  [row EXCEPT !.estado = "normalizado"]

update_document_classification(row, tipo, requiere_revision) ==
  [row EXCEPT !.tipo_documento = tipo,
              !.etiquetas = IF tipo = "sin_clasificar" THEN "[]" ELSE "[tags]",
              !.requiere_revision = requiere_revision,
              !.entidades = "{}",
              !.estado = "clasificado"]

\* update_indexed as _run_pipeline calls it (resumen defaults to None -> "").
update_indexed(row) ==
  [row EXCEPT !.estado = "indexado", !.resumen = ""]

\* UPDATE job_queue SET estado='done' WHERE id=?
mark_job_done(jobs, id) ==
  [ j \in DOMAIN jobs |-> IF j = id THEN [jobs[j] EXCEPT !.estado = "done"] ELSE jobs[j] ]

\* Variant: the comparison is strict, so the job fails one attempt late.
new_estado_Late(intentos) == IF intentos > MAX_RETRIES THEN "failed" ELSE "pending"

\* new_estado = "failed" if intentos >= config.MAX_RETRIES else "pending"
new_estado(intentos) == IF intentos >= MAX_RETRIES THEN "failed" ELSE "pending"

\* mark_job_failed, the UPDATE: intentos + 1, the new state and the error.
mark_job_failed(jobs, id, error) ==
  [ j \in DOMAIN jobs |->
      IF j = id
        THEN LET intentos == jobs[j].intentos + 1
             IN  [jobs[j] EXCEPT
                    !.estado = new_estado(intentos),
                    !.intentos = intentos,
                    !.ultimo_error = error]
        ELSE jobs[j] ]

\* mark_job_failed, the value returned: new_estado == "failed"; a job that has
\* no row counts as having 0 attempts.
mark_job_failed_returns(jobs, id) ==
  new_estado((IF id \in DOMAIN jobs THEN jobs[id].intentos ELSE 0) + 1) = "failed"

\* Second statement of add_to_dead_letter:
\* UPDATE job_queue SET estado='dead_letter', ultimo_error=? WHERE doc_id=? AND estado='failed'
dead_letter_jobs(jobs, d, reason) ==
  [ j \in DOMAIN jobs |->
      IF jobs[j].doc_id = d /\ jobs[j].estado = "failed"
        THEN [jobs[j] EXCEPT !.estado = "dead_letter", !.ultimo_error = reason]
        ELSE jobs[j] ]

\* ------------------------------------------------------------- start-up

\* main(): init_db on empty directories and an empty database; nothing runs yet.
Boot(used) ==
  /\ input        = [n \in Names |-> NoFile]
  /\ processing   = [n \in Names |-> NoFile]
  /\ dead_letter  = [n \in Names |-> NoFile]
  /\ review_queue = [n \in Names |-> NoFile]
  /\ events = {}
  /\ submits = 0
  /\ injected = used
  /\ FORCE_INDEXING \in BOOLEAN
  /\ documentos = << >>
  /\ doc_seq = 0
  /\ documentos_fts = {}
  /\ job_queue = << >>
  /\ pc       = [w \in Workers |-> "idle"]
  /\ filepath = [w \in Workers |-> "a.pdf"]
  /\ attempt  = [w \in Workers |-> 0]
  /\ excs     = [w \in Workers |-> << >>]
  /\ faults   = [w \in Workers |-> 0]
  /\ runs     = [w \in Workers |-> 0]
  /\ file_hash = [w \in Workers |-> NoFile]
  /\ existing = [w \in Workers |-> NoId]
  /\ doc_id   = [w \in Workers |-> NoId]
  /\ job_id   = [w \in Workers |-> NoId]
  /\ dl_doc   = [w \in Workers |-> NoId]
  /\ result   = [w \in Workers |-> "none"]
  /\ poll_pc  = [p \in Pollers |-> "idle"]
  /\ poll_job = [p \in Pollers |-> NoId]
  /\ polls = 0
  /\ failed_ret = "none"

\* No question is being answered while the ingestion pipeline is observed.
NoSearch ==
  /\ q_pc = "off"
  /\ indices = {}
  /\ ocr_files = << >>
  /\ tree_text = << >>
  /\ query = << >>
  /\ doc_ids = << >>
  /\ fts_result = [ok |-> TRUE, rows |-> << >>]
  /\ target_ids = << >>
  /\ q_i = 0
  /\ did = NULL
  /\ ctx = <<[len |-> 0, score |-> 0, kind |-> "text"]>>
  /\ context_parts = << >>
  /\ used_ids = << >>
  /\ full_context = <<[len |-> 0, score |-> 0, kind |-> "text"]>>
  /\ llm_calls = 0
  /\ q_return = [answer |-> "none", sources |-> << >>]

NoExtract ==
  /\ x_pc = "off"
  /\ structure = << >>
  /\ md_readable = TRUE
  /\ num_lines = 0
  /\ node_ids = << >>
  /\ extracted_chunks = << >>

NoCompletion ==
  /\ g_pc = "off"
  /\ key_valid = TRUE
  /\ use_cache = FALSE
  /\ cached = [hit |-> FALSE, text |-> ""]
  /\ g_attempt = 0
  /\ api_calls = 0
  /\ g_outcomes = << >>
  /\ sleeps = << >>
  /\ g_result = [state |-> "none", text |-> ""]

NoDocQuery ==
  /\ d_pc = "off"
  /\ index_found = FALSE
  /\ md_exists = FALSE
  /\ response_text = [fence |-> FALSE, json |-> "blank", node_list |-> << >>]
  /\ thinking_result = [type |-> "none", has_node_list |-> FALSE, node_list |-> << >>]
  /\ d_calls = << >>
  /\ d_return = [state |-> "none", answer |-> "", error |-> ""]

\* main() has finished its start-up scan of an empty input directory and the
\* observer is running.
NoStartup ==
  /\ m_pc = "watching"
  /\ scan_list = {}

NoFts ==
  /\ f_pc = "off"
  /\ f_table = << >>
  /\ f_query = << >>
  /\ f_limit = 0
  /\ f_return = [state |-> "none", rows |-> << >>]

NoCache ==
  /\ c_pc = "off"
  /\ _CACHE = << >>
  /\ c_prompt = [head |-> "", rest |-> ""]
  /\ c_return = [text |-> "", cached |-> FALSE, prompt |-> [head |-> "", rest |-> ""]]

NoOther == NoStartup /\ NoFts /\ NoCache

Init == Boot(0) /\ NoSearch /\ NoExtract /\ NoCompletion /\ NoDocQuery /\ NoOther

\* All but one of the failures the environment may inject are already spent.
OneFaultInit == Boot(MaxFaults - 1) /\ NoSearch /\ NoExtract /\ NoCompletion /\ NoDocQuery /\ NoOther

\* ------------------------------------------------------- the environment

\* api.upload_document: open(dest, "wb") creates or overwrites INPUT_DIR/name.
\* The watcher is notified (on_created) only when the file did not exist.
Submit(n, c) ==
  /\ UNCHANGED rVars
  /\ submits < MaxSubmits
  /\ submits' = submits + 1
  /\ input' = [input EXCEPT ![n] = c]
  /\ events' = IF input[n] = NoFile THEN events \cup {n} ELSE events
  /\ UNCHANGED <<processing, dead_letter, review_queue, FORCE_INDEXING,
                 dbVars, wVars, pollVars>>

\* ------------------------------------------- process_document_sync (main.py)

\* range(MAX_RETRIES): is there an iteration with this value of attempt?
InRange(a) == a < MAX_RETRIES

\* Variant: the test is off by one and gives up an attempt early.
SleepAndRetry_Early(a) == a < MAX_RETRIES - 2

\* "if attempt < config.MAX_RETRIES - 1": sleep and go round again.
SleepAndRetry(a) == a < MAX_RETRIES - 1

\* LegalDocumentHandler.on_created: process_document_sync(event.src_path),
\* entering the loop with attempt = 0 and calling _run_pipeline.
Start(w, n) ==
  /\ UNCHANGED rVars
  /\ pc[w] = "idle"
  /\ n \in events
  /\ InRange(0)
  /\ events' = events \ {n}
  /\ pc'       = [pc EXCEPT ![w] = "stabilize"]
  /\ filepath' = [filepath EXCEPT ![w] = n]
  /\ attempt'  = [attempt EXCEPT ![w] = 0]
  /\ excs'     = [excs EXCEPT ![w] = << >>]
  /\ faults'   = [faults EXCEPT ![w] = 0]
  /\ runs'     = [runs EXCEPT ![w] = 1]
  /\ file_hash' = [file_hash EXCEPT ![w] = NoFile]
  /\ existing' = [existing EXCEPT ![w] = NoId]
  /\ doc_id'   = [doc_id EXCEPT ![w] = NoId]
  /\ job_id'   = [job_id EXCEPT ![w] = NoId]
  /\ dl_doc'   = [dl_doc EXCEPT ![w] = NoId]
  /\ result'   = [result EXCEPT ![w] = "none"]
  /\ UNCHANGED <<fsVars, dbVars, pollVars, submits, injected, FORCE_INDEXING>>

\* _run_pipeline raised msg: the except clause of process_document_sync.
\* Below the last attempt it sleeps 2^attempt seconds and the loop calls
\* _run_pipeline again; on the last attempt it turns to the dead-letter code.
\* inject: the failure came from the environment, not from the state.
Raise(w, msg, inject) ==
  /\ inject => injected < MaxFaults
  /\ injected' = IF inject THEN injected + 1 ELSE injected
  /\ excs'   = [excs EXCEPT ![w] = Append(@, msg)]
  /\ faults' = [faults EXCEPT ![w] = IF inject THEN @ + 1 ELSE @]
  /\ pc' = [pc EXCEPT ![w] = IF   ~SleepAndRetry(attempt[w]) THEN "dl_move"
                              ELSE IF InRange(attempt[w] + 1) THEN "stabilize"
                              ELSE "loop_end"]
  /\ attempt' = [attempt EXCEPT ![w] = IF SleepAndRetry(@) /\ InRange(@ + 1) THEN @ + 1 ELSE @]
  /\ runs'    = [runs EXCEPT ![w] = IF SleepAndRetry(attempt[w]) /\ InRange(attempt[w] + 1)
                                      THEN @ + 1 ELSE @]
  /\ UNCHANGED <<filepath, file_hash, existing, doc_id, job_id, dl_doc, result>>

\* _run_pipeline goes on to its next statement.
Goto(w, next) ==
  /\ pc' = [pc EXCEPT ![w] = next]
  /\ UNCHANGED <<filepath, attempt, excs, faults, runs, file_hash, existing,
                 doc_id, job_id, dl_doc, result, injected>>

\* process_document_sync returns: its locals are gone, the way it ended is kept.
Return(w, how) ==
  /\ pc'       = [pc EXCEPT ![w] = "idle"]
  /\ result'   = [result EXCEPT ![w] = how]
  /\ filepath' = [filepath EXCEPT ![w] = "a.pdf"]
  /\ attempt'  = [attempt EXCEPT ![w] = 0]
  /\ excs'     = [excs EXCEPT ![w] = << >>]
  /\ faults'   = [faults EXCEPT ![w] = 0]
  /\ runs'     = [runs EXCEPT ![w] = 0]
  /\ file_hash' = [file_hash EXCEPT ![w] = NoFile]
  /\ existing' = [existing EXCEPT ![w] = NoId]
  /\ doc_id'   = [doc_id EXCEPT ![w] = NoId]
  /\ job_id'   = [job_id EXCEPT ![w] = NoId]
  /\ dl_doc'   = [dl_doc EXCEPT ![w] = NoId]
  /\ UNCHANGED injected

\* 1. utils.wait_for_file_stabilization: False when the file is missing or its
\*    size keeps changing for 60 s.
Stabilize(w) ==
  /\ UNCHANGED rVars
  /\ pc[w] = "stabilize"
  /\ UNCHANGED <<fsVars, dbVars, pollVars, envVars>>
  /\ IF input[filepath[w]] = NoFile
       THEN Raise(w, E_STABILIZE, FALSE)
       ELSE \/ Raise(w, E_STABILIZE, TRUE)
            \/ Goto(w, "validate")

\* 2. is_valid_pdf: magic bytes.
Validate(w) ==
  /\ UNCHANGED rVars
  /\ pc[w] = "validate"
  /\ UNCHANGED <<fsVars, dbVars, pollVars, envVars>>
  /\ IF input[filepath[w]] # NoFile /\ is_valid_pdf(input[filepath[w]])
       THEN Goto(w, "dedup")
       ELSE Raise(w, E_MAGIC, FALSE)

\* Variant: the duplicate test is missing and every known hash is re-processed.
AlreadyIndexed_Never(found) == FALSE

\* "if existing and existing.get('estado') == 'indexado'": the duplicate test.
AlreadyIndexed(found) ==
  found # NoId /\ documentos[found].estado = "indexado"

\* 3. calculate_file_hash, get_document_by_hash and the branch on the result.
Dedup(w) ==
  /\ UNCHANGED rVars
  /\ pc[w] = "dedup"
  /\ UNCHANGED <<fsVars, dbVars, pollVars, envVars>>
  /\ IF input[filepath[w]] = NoFile
       THEN Raise(w, E_NOINPUT, FALSE)
       ELSE LET h     == calculate_file_hash(input[filepath[w]])
                found == get_document_by_hash(h)
            IN  IF AlreadyIndexed(found)
                  THEN Return(w, "skipped")
                  ELSE /\ pc' = [pc EXCEPT ![w] =
                                   IF found # NoId THEN "enqueue" ELSE "register"]
                       /\ file_hash' = [file_hash EXCEPT ![w] = h]
                       /\ existing' = [existing EXCEPT ![w] = found]
                       /\ doc_id' = [doc_id EXCEPT ![w] = IF found # NoId THEN found ELSE @]
                       /\ UNCHANGED <<filepath, attempt, excs, faults, runs,
                                      job_id, dl_doc, result, injected>>

\* database.register_document: INSERT; on IntegrityError the id of the row
\* that holds the hash.
RegisterDocument(w) ==
  /\ UNCHANGED rVars
  /\ pc[w] = "register"
  /\ pc' = [pc EXCEPT ![w] = "enqueue"]
  /\ IF HashTaken(file_hash[w])
       THEN /\ doc_id' = [doc_id EXCEPT ![w] = get_document_by_hash(file_hash[w])]
            /\ UNCHANGED <<documentos, doc_seq, documentos_fts>>
       ELSE LET id  == doc_seq + 1
                new == NewDocumento(filepath[w], file_hash[w])
            IN  /\ doc_seq' = id
                /\ documentos' = [ d \in (DOMAIN documentos) \cup {id} |->
                                     IF d = id THEN new ELSE documentos[d] ]
                /\ documentos_fts' = documentos_ai(documentos_fts, id, new)
                /\ doc_id' = [doc_id EXCEPT ![w] = id]
  /\ UNCHANGED <<job_queue, fsVars, pollVars, envVars, filepath, attempt, excs,
                 faults, runs, file_hash, existing, job_id, dl_doc, result, injected>>

\* database.enqueue_job.
EnqueueJob(w) ==
  /\ UNCHANGED rVars
  /\ pc[w] = "enqueue"
  /\ job_queue' = Append(job_queue, NewJob(doc_id[w]))
  /\ job_id' = [job_id EXCEPT ![w] = Len(job_queue) + 1]
  /\ pc' = [pc EXCEPT ![w] = "move"]
  /\ UNCHANGED <<documentos, doc_seq, documentos_fts, fsVars, pollVars, envVars,
                 filepath, attempt, excs, faults, runs, file_hash, existing,
                 doc_id, dl_doc, result, injected>>

\* 4. utils.safe_move(filepath, PROCESSING_DIR/filename): shutil.move, once
\*    more after an OSError; the second OSError propagates.
Move(w) ==
  /\ UNCHANGED rVars
  /\ pc[w] = "move"
  /\ UNCHANGED <<dbVars, pollVars, envVars>>
  /\ IF input[filepath[w]] = NoFile
       THEN /\ Raise(w, E_NOINPUT, FALSE)
            /\ UNCHANGED fsVars
       ELSE \/ /\ Raise(w, E_MOVE, TRUE)
               /\ UNCHANGED fsVars
            \/ /\ processing' = [processing EXCEPT ![filepath[w]] = input[filepath[w]]]
               /\ input' = [input EXCEPT ![filepath[w]] = NoFile]
               /\ UNCHANGED <<dead_letter, review_queue>>
               /\ Goto(w, "ocr")

\* Variant: the stage's state is written before the stage has run.
StageFails_RecordsFirst(w, msg) ==
  /\ Raise(w, msg, TRUE)
  /\ UpdateDocumento(doc_id[w], update_ocr_data(documentos[doc_id[w]]))
  /\ UNCHANGED <<doc_seq, job_queue, fsVars>>

\* A pipeline stage that raised: nothing is written.
StageFails(w, msg) ==
  /\ Raise(w, msg, TRUE)
  /\ UNCHANGED <<fsVars, dbVars>>

\* 5. ocr_service.process_pdf_ocr on the staged file, then update_ocr_data.
Ocr(w) ==
  /\ UNCHANGED rVars
  /\ pc[w] = "ocr"
  /\ UNCHANGED <<pollVars, envVars>>
  /\ IF processing[filepath[w]] = NoFile
       THEN /\ Raise(w, E_NOPROC, FALSE)
            /\ UNCHANGED <<fsVars, dbVars>>
       ELSE \/ StageFails(w, E_OCR)
            \/ /\ UpdateDocumento(doc_id[w], update_ocr_data(documentos[doc_id[w]]))
               /\ UNCHANGED <<doc_seq, job_queue, fsVars>>
               /\ Goto(w, "normalize")

\* 6. normalizer.clean_markdown on the OCR output, then update_norm_path.
Normalize(w) ==
  /\ UNCHANGED rVars
  /\ pc[w] = "normalize"
  /\ UNCHANGED <<pollVars, envVars>>
  /\ \/ StageFails(w, E_NORM)
     \/ /\ UpdateDocumento(doc_id[w], update_norm_path(documentos[doc_id[w]]))
        /\ UNCHANGED <<doc_seq, job_queue, fsVars>>
        /\ Goto(w, "classify")

SendToReview_IgnoresForce(requiere_revision) == requiere_revision

\* if result["requiere_revision"] and not config.FORCE_INDEXING
SendToReview(requiere_revision) == requiere_revision /\ ~FORCE_INDEXING

\* 7. classifier.classify_document, then update_document_classification and
\*    the test "requiere_revision and not FORCE_INDEXING".
Classify(w) ==
  /\ UNCHANGED rVars
  /\ pc[w] = "classify"
  /\ UNCHANGED <<pollVars, envVars>>
  /\ \/ StageFails(w, E_CLASS)
     \/ \E tipo \in Tipos, requiere_revision \in BOOLEAN :
          /\ tipo = "sin_clasificar" => requiere_revision
          /\ UpdateDocumento(doc_id[w],
               update_document_classification(documentos[doc_id[w]], tipo,
                                              requiere_revision))
          /\ UNCHANGED <<doc_seq, job_queue, fsVars>>
          /\ Goto(w, IF SendToReview(requiere_revision) THEN "review" ELSE "index")

\* The review branch: shutil.copy of the staged file into REVIEW_QUEUE_DIR,
\* mark_job_done, return.
Review(w) ==
  /\ UNCHANGED rVars
  /\ pc[w] = "review"
  /\ UNCHANGED <<pollVars, envVars, documentos, doc_seq, documentos_fts>>
  /\ IF processing[filepath[w]] = NoFile
       THEN /\ Raise(w, E_NOPROC, FALSE)
            /\ UNCHANGED <<fsVars, job_queue>>
       ELSE /\ review_queue' = [review_queue EXCEPT ![filepath[w]] = processing[filepath[w]]]
            /\ job_queue' = mark_job_done(job_queue, job_id[w])
            /\ UNCHANGED <<input, processing, dead_letter>>
            /\ Return(w, "review")

\* 8. indexer.create_index, then update_indexed.
Index(w) ==
  /\ UNCHANGED rVars
  /\ pc[w] = "index"
  /\ UNCHANGED <<pollVars, envVars>>
  /\ \/ StageFails(w, E_INDEX)
     \/ /\ UpdateDocumento(doc_id[w], update_indexed(documentos[doc_id[w]]))
        /\ UNCHANGED <<doc_seq, job_queue, fsVars>>
        /\ Goto(w, "mark_done")

\* The last statement of _run_pipeline: mark_job_done(job_id).
MarkDone(w) ==
  /\ UNCHANGED rVars
  /\ pc[w] = "mark_done"
  /\ job_queue' = mark_job_done(job_queue, job_id[w])
  /\ UNCHANGED <<documentos, doc_seq, documentos_fts, fsVars, pollVars, envVars>>
  /\ Return(w, "ok")

\* ---- retries exhausted: the dead-letter code of process_document_sync

\* shutil.move of the file (or, when it is gone, of the staged file of that
\* name) to DEAD_LETTER_DIR; a failure is logged and ignored.
DlMove(w) ==
  /\ UNCHANGED rVars
  /\ pc[w] = "dl_move"
  /\ pc' = [pc EXCEPT ![w] = "dl_lookup"]
  /\ UNCHANGED <<dbVars, pollVars, envVars, review_queue, filepath, attempt, excs,
                 faults, runs, file_hash, existing, doc_id, job_id, dl_doc, result>>
  /\ LET n    == filepath[w]
         from == IF input[n] # NoFile THEN "input"
                 ELSE IF processing[n] # NoFile THEN "processing" ELSE "nowhere"
     IN  \/ /\ from = "input"
            /\ dead_letter' = [dead_letter EXCEPT ![n] = input[n]]
            /\ input' = [input EXCEPT ![n] = NoFile]
            /\ UNCHANGED <<processing, injected>>
         \/ /\ from = "processing"
            /\ dead_letter' = [dead_letter EXCEPT ![n] = processing[n]]
            /\ processing' = [processing EXCEPT ![n] = NoFile]
            /\ UNCHANGED <<input, injected>>
         \/ /\ from = "nowhere"
            /\ UNCHANGED <<input, processing, dead_letter, injected>>
         \/ /\ from # "nowhere"
            /\ injected < MaxFaults
            /\ injected' = injected + 1
            /\ UNCHANGED <<input, processing, dead_letter>>

\* calculate_file_hash(dead_path if it exists else filepath) and
\* get_document_by_hash; any exception is swallowed.
DlLookup(w) ==
  /\ UNCHANGED rVars
  /\ pc[w] = "dl_lookup"
  /\ UNCHANGED <<fsVars, dbVars, pollVars, envVars>>
  /\ LET n    == filepath[w]
         file == IF dead_letter[n] # NoFile THEN dead_letter[n] ELSE input[n]
         doc  == IF file = NoFile THEN NoId
                 ELSE get_document_by_hash(calculate_file_hash(file))
     IN  IF doc = NoId
           THEN Return(w, "dead_letter")
           ELSE /\ pc' = [pc EXCEPT ![w] = "dl_status"]
                /\ dl_doc' = [dl_doc EXCEPT ![w] = doc]
                /\ UNCHANGED <<filepath, attempt, excs, faults, runs, file_hash,
                               existing, doc_id, job_id, result, injected>>

\* add_to_dead_letter, first transaction: update_document_status(doc, "error", str(exc)).
DlStatus(w) ==
  /\ UNCHANGED rVars
  /\ pc[w] = "dl_status"
  /\ UpdateDocumento(dl_doc[w],
       update_document_status(documentos[dl_doc[w]], "error", excs[w][Len(excs[w])]))
  /\ UNCHANGED <<doc_seq, job_queue, fsVars, pollVars, envVars>>
  /\ Goto(w, "dl_jobs")

\* add_to_dead_letter, second transaction: the failed jobs of the document.
DlJobs(w) ==
  /\ UNCHANGED rVars
  /\ pc[w] = "dl_jobs"
  /\ job_queue' = dead_letter_jobs(job_queue, dl_doc[w], excs[w][Len(excs[w])])
  /\ UNCHANGED <<documentos, doc_seq, documentos_fts, fsVars, pollVars, envVars>>
  /\ Return(w, "dead_letter")

\* --------------------------------------------- the job-queue API (database.py)

\* SELECT * FROM job_queue WHERE estado = 'pending' ORDER BY id ASC LIMIT 1
NextPending(jobs) ==
  IF \E j \in DOMAIN jobs : jobs[j].estado = "pending"
    THEN CHOOSE j \in DOMAIN jobs :
           /\ jobs[j].estado = "pending"
           /\ \A k \in DOMAIN jobs : jobs[k].estado = "pending" => j <= k
    ELSE NoId

\* get_next_job, the SELECT (autocommit: no transaction is open afterwards).
GetNextJobSelect(p) ==
  /\ UNCHANGED rVars
  /\ poll_pc[p] = "idle"
  /\ polls < MaxPolls
  /\ polls' = polls + 1
  /\ NextPending(job_queue) # NoId
  /\ poll_job' = [poll_job EXCEPT ![p] = NextPending(job_queue)]
  /\ poll_pc'  = [poll_pc EXCEPT ![p] = "selected"]
  /\ UNCHANGED <<failed_ret, fsVars, dbVars, wVars, envVars>>

\* get_next_job, the UPDATE ... SET estado='processing' WHERE id=? and commit;
\* the row selected is returned.
GetNextJobUpdate(p) ==
  /\ UNCHANGED rVars
  /\ poll_pc[p] = "selected"
  /\ job_queue' = [job_queue EXCEPT ![poll_job[p]].estado = "processing"]
  /\ poll_pc' = [poll_pc EXCEPT ![p] = "claimed"]
  /\ UNCHANGED <<documentos, doc_seq, documentos_fts, poll_job, polls, failed_ret, fsVars, wVars, envVars>>

\* The caller that got the job reports success: mark_job_done.
JobDone(p) ==
  /\ UNCHANGED rVars
  /\ poll_pc[p] = "claimed"
  /\ job_queue' = mark_job_done(job_queue, poll_job[p])
  /\ poll_pc'  = [poll_pc EXCEPT ![p] = "idle"]
  /\ poll_job' = [poll_job EXCEPT ![p] = NoId]
  /\ UNCHANGED <<documentos, doc_seq, documentos_fts, polls, failed_ret, fsVars, wVars, envVars>>

\* The caller that got the job reports a failure: mark_job_failed.
JobFailed(p) ==
  /\ UNCHANGED rVars
  /\ poll_pc[p] = "claimed"
  /\ job_queue' = mark_job_failed(job_queue, poll_job[p], "job failed")
  /\ failed_ret' = IF mark_job_failed_returns(job_queue, poll_job[p]) THEN "True" ELSE "False"
  /\ poll_pc'  = [poll_pc EXCEPT ![p] = "idle"]
  /\ poll_job' = [poll_job EXCEPT ![p] = NoId]
  /\ UNCHANGED <<documentos, doc_seq, documentos_fts, polls, fsVars, wVars, envVars>>

\* ------------------------------------------------------- specifications

Pipeline(w) ==
  \/ Stabilize(w) \/ Validate(w) \/ Dedup(w) \/ RegisterDocument(w)
  \/ EnqueueJob(w) \/ Move(w) \/ Ocr(w) \/ Normalize(w) \/ Classify(w)
  \/ Review(w) \/ Index(w) \/ MarkDone(w)
  \/ DlMove(w) \/ DlLookup(w) \/ DlStatus(w) \/ DlJobs(w)

\* The program as main() runs it: one watcher thread handles one notification
\* at a time, and nothing calls the job-queue API.  Every upload uses the same
\* file name.
Next ==
  \/ \E c \in Contents : Submit("a.pdf", c)
  \/ Start("w1", "a.pdf")
  \/ Pipeline("w1")

Spec == Init /\ [][Next]_vars

\* No trace of a file of this name in any directory, notification or worker.
FileNameIsNew(n) ==
  /\ input[n] = NoFile /\ processing[n] = NoFile /\ dead_letter[n] = NoFile
  /\ n \notin events
  /\ \A w \in Workers : pc[w] # "idle" => filepath[w] # n

\* Two watchers on the same directories and database; every upload brings a
\* file name that was not used before.
ConcNext ==
  \/ \E n \in Names, c \in Contents : FileNameIsNew(n) /\ Submit(n, c)
  \/ \E w \in Workers, n \in Names : Start(w, n)
  \/ \E w \in Workers : Pipeline(w)

ConcSpec == OneFaultInit /\ [][ConcNext]_vars

\* api.delete_document -> database.delete_document: DELETE FROM documentos
\* WHERE id = ? with the AFTER DELETE trigger, one transaction.
DeleteDocument(d) ==
  /\ UNCHANGED rVars
  /\ d \in DOMAIN documentos
  /\ documentos' = [ k \in (DOMAIN documentos) \ {d} |-> documentos[k] ]
  /\ documentos_fts' = documentos_ad(documentos_fts, d, documentos[d])
  /\ UNCHANGED <<doc_seq, job_queue, fsVars, wVars, pollVars, envVars>>

\* One watcher, fed one file name, and the API's delete endpoint.
RegistryNext ==
  \/ \E c \in Contents : Submit("a.pdf", c)
  \/ Start("w1", "a.pdf")
  \/ Pipeline("w1")
  \/ \E d \in DOMAIN documentos : DeleteDocument(d)

RegistrySpec == Init /\ [][RegistryNext]_vars

\* One watcher, fed one file name, and a pool of callers of the job-queue API.
PoolNext ==
  \/ \E c \in Contents : Submit("a.pdf", c)
  \/ Start("w1", "a.pdf")
  \/ Pipeline("w1")
  \/ \E p \in Pollers :
       GetNextJobSelect(p) \/ GetNextJobUpdate(p) \/ JobDone(p) \/ JobFailed(p)

PoolSpec == OneFaultInit /\ [][PoolNext]_vars

\* ================================================================ claims

DeadLetterPcs == {"dl_move", "dl_lookup", "dl_status", "dl_jobs"}
AfterRegisterPcs == {"enqueue", "move", "ocr", "normalize", "classify", "review",
                     "index", "mark_done"}
ActiveJobStates == {"pending", "processing"}

\* C1: no two rows of documentos hold the same content hash, and a worker
\* that has passed deduplication (through register_document or through the
\* row it found) holds the id of the one row with the hash of its file.
C1_UniqueHash ==
  /\ \A d1, d2 \in DOMAIN documentos :
       documentos[d1].hash_sha256 = documentos[d2].hash_sha256 => d1 = d2
  /\ \A w \in Workers :
       pc[w] = "enqueue" =>
         /\ doc_id[w] \in DOMAIN documentos
         /\ documentos[doc_id[w]].hash_sha256 = file_hash[w]

\* C1 witness: two workers found no row for the same content, both called
\* register_document, and both hold the same id (one of them through the
\* IntegrityError branch).
C1_Witness ==
  \E w1, w2 \in Workers :
    /\ w1 # w2
    /\ pc[w1] \in AfterRegisterPcs /\ pc[w2] \in AfterRegisterPcs
    /\ existing[w1] = NoId /\ existing[w2] = NoId
    /\ doc_id[w1] # NoId /\ doc_id[w1] = doc_id[w2]

\* C2: every Document has at most one Job that is pending or processing.
C2_OneActiveJob ==
  \A d \in DOMAIN documentos :
    Cardinality({ j \in DOMAIN job_queue :
                    /\ job_queue[j].doc_id = d
                    /\ job_queue[j].estado \in ActiveJobStates }) <= 1

\* C3: process_document_sync never runs more than MAX_RETRIES attempts, every
\* attempt but the running one has failed, and the dead-letter code is entered
\* only after exactly MAX_RETRIES attempts have run and failed.
C3_RetryBound ==
  \A w \in Workers :
    /\ runs[w] <= MAX_RETRIES
    /\ pc[w] \notin DeadLetterPcs \cup {"idle"} => Len(excs[w]) = runs[w] - 1
    /\ pc[w] \in DeadLetterPcs =>
         /\ runs[w] = MAX_RETRIES
         /\ Len(excs[w]) = MAX_RETRIES

\* C3 witness: the dead-letter code is entered after MAX_RETRIES attempts that
\* all failed in staging or in a stage, the last one in a stage.
C3_Witness ==
  \E w \in Workers :
    /\ pc[w] = "dl_move"
    /\ runs[w] = MAX_RETRIES
    /\ \A i \in 1..Len(excs[w]) : excs[w][i] \in StageErrors \cup {E_MOVE}
    /\ excs[w][Len(excs[w])] \in StageErrors

\* C4: an item whose first attempt failed in a stage is dead-lettered only
\* when a failure was injected on each of its MAX_RETRIES attempts: with
\* fewer failures a retry re-executed the pipeline and succeeded.  (An item
\* whose content was replaced by a non-PDF in the meantime is left out.)
C4_RetryRecovers ==
  \A w \in Workers :
    ( /\ pc[w] = "dl_move"
      /\ excs[w][1] \in StageErrors
      /\ \A i \in 1..Len(excs[w]) : excs[w][i] # E_MAGIC )
    => faults[w] >= MAX_RETRIES

\* The step with which worker w leaves the dead-letter code.
DeadLetterEnds(w) == pc[w] \in DeadLetterPcs /\ pc'[w] = "idle"

\* C5: when add_to_dead_letter has run for the Document of an item whose
\* retries are exhausted, that Document has a Job in dead_letter and none
\* pending, processing or failed.
C5_JobDeadLettered ==
  [][ \A w \in Workers :
        (pc[w] = "dl_jobs" /\ pc'[w] = "idle") =>
          /\ \E j \in DOMAIN job_queue' :
               /\ job_queue'[j].doc_id = dl_doc[w]
               /\ job_queue'[j].estado = "dead_letter"
          /\ \A j \in DOMAIN job_queue' :
               job_queue'[j].doc_id = dl_doc[w] =>
                 job_queue'[j].estado \notin {"pending", "processing", "failed"}
    ]_vars

\* C6: when the dead-letter code ends for an item for which the pipeline
\* registered or found a Document, that Document is in state error and its
\* error message is the message of the last failed attempt.
C6_DocumentError ==
  [][ \A w \in Workers :
        (DeadLetterEnds(w) /\ doc_id[w] # NoId) =>
          /\ documentos'[doc_id[w]].estado = "error"
          /\ documentos'[doc_id[w]].error_mensaje = excs[w][Len(excs[w])]
    ]_vars

\* The Document that holds the hash of the file worker w is looking at.
DocumentOfInput(w) ==
  IF input[filepath[w]] = NoFile THEN NoId
  ELSE get_document_by_hash(calculate_file_hash(input[filepath[w]]))

\* C7: an attempt on an item whose hash belongs to an indexed Document ends
\* with the step that makes the duplicate test and writes nothing: the
\* Document rows, the Job Queue (no new row, no changed row) and the
\* Full-Text Index stay as they were.
C7_IndexedDuplicateNoOp ==
  [][ \A w \in Workers :
        /\ pc[w] \in {"stabilize", "validate"} => UNCHANGED dbVars
        /\ ( /\ pc[w] = "dedup" /\ pc'[w] # "dedup"
             /\ DocumentOfInput(w) # NoId
             /\ documentos[DocumentOfInput(w)].estado = "indexado" )
           => /\ pc'[w] = "idle"
              /\ result'[w] = "skipped"
              /\ UNCHANGED dbVars
    ]_vars

C7_Witness ==
  \E w \in Workers :
    /\ result[w] = "skipped"
    /\ \E d \in DOMAIN documentos : documentos[d].estado = "indexado"
    /\ \A j \in DOMAIN job_queue : job_queue[j].estado = "done"
    /\ Len(job_queue) = 1

\* The changes of state the Job state machine allows.
JobTransitionAllowed(old, new) ==
  \/ old.estado = "pending"    /\ new.estado = "processing"
  \/ old.estado = "processing" /\ new.estado = "done"
  \/ old.estado = "processing" /\ new.estado = "pending"
       /\ new.intentos = old.intentos + 1
  \/ old.estado = "processing" /\ new.estado = "failed"
       /\ new.intentos >= MAX_RETRIES
  \/ old.estado = "failed"     /\ new.estado = "dead_letter"

\* C8: every change of a Job's state is a transition of the Job state
\* machine; a Job becomes done only from processing.
C8_JobStateMachine ==
  [][ \A j \in DOMAIN job_queue :
        job_queue'[j].estado # job_queue[j].estado =>
          JobTransitionAllowed(job_queue[j], job_queue'[j])
    ]_vars

\* The changes of state the Document state machine allows; what follows a
\* re-submission of a Document in error is not restricted.
DocumentTransitionAllowed(old, new) ==
  \/ old = "recibido"    /\ new = "ocr_ok"
  \/ old = "ocr_ok"      /\ new = "normalizado"
  \/ old = "normalizado" /\ new = "clasificado"
  \/ old = "clasificado" /\ new \in {"review", "indexado"}
  \/ new = "error"
  \/ old = "error"

\* C9: every change of a Document's state is a transition of the Document
\* state machine; outside error no Document moves backwards.
C9_DocumentStateMachine ==
  [][ \A d \in DOMAIN documentos :
        documentos'[d].estado # documentos[d].estado =>
          DocumentTransitionAllowed(documentos[d].estado, documentos'[d].estado)
    ]_vars

\* C10: no two callers of get_next_job hold the same Job as claimed.
C10_ClaimedOnce ==
  \A p, q \in Pollers :
    (p # q /\ poll_pc[p] = "claimed" /\ poll_pc[q] = "claimed")
      => poll_job[p] # poll_job[q]

\* Positions of _run_pipeline inside a stage, and where an exception leads.
StagePcs == {"ocr", "normalize", "classify", "index"}
AbortedPcs == {"stabilize", "dl_move", "loop_end"}

\* The position a stage is left from, and entered next, when it succeeded
\* and recorded this state.
RecordedBy(estado) ==
  CASE estado = "ocr_ok"      -> <<"ocr", "normalize">>
    [] estado = "normalizado" -> <<"normalize", "classify">>
    [] estado = "clasificado" -> <<"classify", "review">>
    [] estado = "indexado"    -> <<"index", "mark_done">>
    [] OTHER                  -> <<"none", "none">>

\* C11: a step in which a stage raises aborts the attempt and leaves every
\* Document row as it was; a stage's state is written only by the step in
\* which that stage succeeds and the pipeline goes on.
C11_StageFailureKeepsState ==
  [][ /\ \A w \in Workers :
           (pc[w] \in StagePcs /\ pc'[w] \in AbortedPcs) =>
             /\ documentos' = documentos
             /\ Len(excs'[w]) = Len(excs[w]) + 1
      /\ \A d \in DOMAIN documentos :
           ( /\ documentos'[d].estado # documentos[d].estado
             /\ documentos'[d].estado \in {"ocr_ok", "normalizado", "clasificado", "indexado"} )
           => \E w \in Workers :
                /\ doc_id[w] = d
                /\ pc[w] = RecordedBy(documentos'[d].estado)[1]
                /\ \/ pc'[w] = RecordedBy(documentos'[d].estado)[2]
                   \/ pc[w] = "classify" /\ pc'[w] = "index"
    ]_vars

C11_Witness ==
  \E w \in Workers :
    /\ pc[w] \in AbortedPcs
    /\ excs[w] # << >>
    /\ excs[w][Len(excs[w])] = E_CLASS
    /\ doc_id[w] # NoId
    /\ documentos[doc_id[w]].estado = "normalizado"

\* The postings the Full-Text Index holds for rowid d in column c.
PostingsOf(d, c) == { p \in documentos_fts : p[1] = d /\ p[2] = c }

\* The text of a column as it is searched: NULL and '' carry no text.
Searchable(v) == IF v \in {NULL, ""} THEN {} ELSE {v}

\* C12: the Full-Text Index has an entry for a rowid exactly when that
\* Document exists, and for every searchable column the entry holds the
\* Document's current value and nothing else.
C12_FtsMirrorsDocumentos ==
  /\ \A p \in documentos_fts : p[1] \in DOMAIN documentos
  /\ \A d \in DOMAIN documentos :
       /\ \E p \in documentos_fts : p[1] = d
       /\ \A c \in FtsColumns :
            { p[3] : p \in PostingsOf(d, c) } = Searchable(documentos[d][c])

\* A Document was deleted, and a Document that two attempts worked on, the
\* last one classifying it with the default type, exists.
C12_Witness ==
  /\ Cardinality(DOMAIN documentos) < doc_seq
  /\ \E d \in DOMAIN documentos :
       /\ documentos[d].tipo_documento = "sin_clasificar"
       /\ \E j1, j2 \in DOMAIN job_queue :
            j1 # j2 /\ job_queue[j1].doc_id = d /\ job_queue[j2].doc_id = d

\* C13: the Full-Text Index has an entry for an id exactly when the Document
\* row exists and has been normalized; none while the Document is recibido
\* or ocr_ok.  (A Document in error may have failed before or after its
\* normalization and is not constrained.)
C13_EntryIffNormalized ==
  \A d \in 1..doc_seq :
    (d \in DOMAIN documentos => documentos[d].estado # "error")
    => ( (\E p \in documentos_fts : p[1] = d)
         <=> ( /\ d \in DOMAIN documentos
               /\ documentos[d].estado \in {"normalizado", "clasificado", "indexado"} ) )

\* C13 (amended): under the registry's inserts, updates and deletes the
\* Full-Text Index has an entry for an id exactly when the Document row exists,
\* from its registration on and whatever its state; none once it is deleted.
C13_EntryIffRowExists ==
  \A d \in 1..doc_seq : (\E p \in documentos_fts : p[1] = d) <=> d \in DOMAIN documentos

\* A Document that is registered but not yet normalized is in the index, and a
\* deleted one has left it.
C13_Witness ==
  /\ \E d \in DOMAIN documentos :
       /\ documentos[d].estado \in {"recibido", "ocr_ok"}
       /\ \E p \in documentos_fts : p[1] = d
  /\ \E d \in 1..doc_seq : d \notin DOMAIN documentos

\* Exceptions with which _run_pipeline rejects an item before it creates state.
ValidationErrors == {E_STABILIZE, E_MAGIC}

\* Every attempt worker w has made so far was rejected at validation.
RejectedAtValidation(w) ==
  /\ excs[w] # << >>
  /\ \A i \in 1..Len(excs[w]) : excs[w][i] \in ValidationErrors

\* C14: the validation steps write no Document and no Job row, and neither
\* does the dead-letter code of an item all of whose attempts were rejected
\* at validation.
C14_RejectedItemWritesNothing ==
  [][ \A w \in Workers :
        ( \/ pc[w] \in {"stabilize", "validate"}
          \/ pc[w] \in DeadLetterPcs /\ RejectedAtValidation(w) )
        => UNCHANGED <<documentos, job_queue>>
    ]_vars

\* C15: no commit of add_to_dead_letter, applied to a Document that has a
\* failed Job, leaves a state in which the Document is already in error and
\* that Job is not yet dead_letter.
C15_DeadLetterNotPartial ==
  [][ \A w \in Workers :
        (pc[w] = "dl_status" /\ pc'[w] # "dl_status") =>
          \A j \in DOMAIN job_queue :
            (job_queue[j].doc_id = dl_doc[w] /\ job_queue[j].estado = "failed")
            => ~ ( /\ documentos'[dl_doc[w]].estado = "error"
                   /\ job_queue'[j].estado # "dead_letter" )
    ]_vars

\* ------------------------------------------------------------------ text
\* A Python str is modelled by what str.split("\n") yields: a non-empty
\* sequence of lines.  A line records its number of characters, how often the
\* keywords of the query occur in it, and what it is:
\*   "text"   ordinary text (len 0: an empty line),
\*   "page"   a heading "## Page N", which the section pattern matches,
\*   "article" a heading "# Articulo N ...", which the section pattern matches,
\*   "header" the line "=== Documento <id> ===" that SearchEngine.query writes,
\*   "rule"   the line "---" that _extract_relevant_sections writes,
\*   "marker" the line "[CONTEXTO TRUNCADO]".

Ln(n, k, what) == [len |-> n, score |-> k, kind |-> what]

E == Ln(0, 0, "text")

EmptyStr == <<E>>

RECURSIVE SumLen(_)
SumLen(s) == IF s = << >> THEN 0 ELSE Head(s).len + SumLen(Tail(s))

\* len(s): the characters of the lines and one "\n" between two lines.
StrLen(s) == SumLen(s) + Len(s) - 1

\* a + b: the last line of a and the first line of b become one line.
Cat(a, b) ==
  LET x == a[Len(a)]
      y == b[1]
      xy == Ln(x.len + y.len, x.score + y.score, IF x.len > 0 THEN x.kind ELSE y.kind)
  IN  SubSeq(a, 1, Len(a) - 1) \o <<xy>> \o Tail(b)

\* sep.join(parts)
RECURSIVE Join(_, _)
Join(parts, sep) ==
  IF parts = << >> THEN EmptyStr
  ELSE IF Len(parts) = 1 THEN parts[1]
  ELSE Cat(Cat(parts[1], sep), Join(Tail(parts), sep))

\* s[:k]
RECURSIVE Prefix(_, _)
Prefix(s, k) ==
  IF k >= StrLen(s) THEN s
  ELSE IF k <= s[1].len
       THEN <<Ln(k, IF k = s[1].len THEN s[1].score ELSE 0, IF k = 0 THEN "text" ELSE s[1].kind)>>
       ELSE <<s[1]>> \o Prefix(Tail(s), k - s[1].len - 1)

\* s.strip(), for text whose only whitespace is the line break
RECURSIVE Strip(_)
Strip(s) ==
  IF Len(s) > 1 /\ s[1] = E THEN Strip(Tail(s))
  ELSE IF Len(s) > 1 /\ s[Len(s)] = E THEN Strip(SubSeq(s, 1, Len(s) - 1))
  ELSE s

\* Offset (0-based) of the first character of line i of s.
RECURSIVE LineStart(_, _)
LineStart(s, i) == IF i = 1 THEN 0 ELSE LineStart(s, i - 1) + s[i - 1].len + 1

Max(S) == CHOOSE m \in S : \A n \in S : n <= m

\* s.rfind("\n\n"): the line break before an empty line that is itself followed
\* by a line break; -1 when there is none.
RfindBreak(s) ==
  Max({-1} \cup {LineStart(s, i) - 1 : i \in {j \in 2..(Len(s) - 1) : s[j].len = 0}})

\* s.rfind("\n==="): the line break before a line that starts with "===";
\* a header line cut to fewer than three characters does not match.
RfindHeader(s) ==
  Max({-1} \cup {LineStart(s, i) - 1 :
                 i \in {j \in 2..Len(s) : s[j].kind = "header" /\ s[j].len >= 3}})

\* --------------------------------------------------- src/search_engine.py

MAX_FULL == 180000
MAX_CONTEXT_CHARS == 180000
SECTION_BUDGET == 180000
context_lines == 40

\* A query is the sequence of the lengths of its words; its keywords are the
\* words of three or more characters.
Keywords(qry) ==
  LET Long(w) == w >= 3
  IN  SelectSeq(qry, Long)

RECURSIVE SortedSeq(_)
SortedSeq(S) ==
  IF S = {} THEN << >>
  ELSE LET m == CHOOSE x \in S : \A y \in S : x <= y
       IN  <<m>> \o SortedSeq(S \ {m})

\* section_pattern.split(ocr_text): a cut in front of every heading line; every
\* piece but the last keeps the line break that ends it, and a heading on the
\* first line leaves an empty first piece.
SplitSections(s) ==
  LET heads  == {i \in 1..Len(s) : s[i].kind \in {"page", "article"}}
      starts == SortedSeq({1} \cup heads)
      n      == Len(starts)
      pieces == [k \in 1..n |->
                   IF k = n THEN SubSeq(s, starts[k], Len(s))
                   ELSE SubSeq(s, starts[k], starts[k + 1] - 1) \o <<E>>]
  IN  IF 1 \in heads THEN <<EmptyStr>> \o pieces ELSE pieces

\* The sliding windows over ocr_text.splitlines(): context_lines lines each,
\* one window every context_lines // 2 lines.
SlidingWindows(s) ==
  LET step == context_lines \div 2
      n    == (Len(s) + step - 1) \div step
  IN  [k \in 1..n |->
         LET i == (k - 1) * step
         IN  SubSeq(s, i + 1, IF i + context_lines < Len(s) THEN i + context_lines ELSE Len(s))]

RECURSIVE SumScore(_)
SumScore(s) == IF s = << >> THEN 0 ELSE Head(s).score + SumScore(Tail(s))

\* sum(sec_lower.count(kw) for kw in keywords)
Score(sec, qry) == IF Keywords(qry) = << >> THEN 0 ELSE SumScore(sec)

\* scored.sort(key=score, reverse=True): stable, the highest score first.
RECURSIVE SortByScore(_, _)
SortByScore(secs, qry) ==
  IF secs = << >> THEN << >>
  ELSE LET best == CHOOSE i \in 1..Len(secs) :
                     /\ \A j \in 1..Len(secs) : Score(secs[j], qry) <= Score(secs[i], qry)
                     /\ \A j \in 1..(i - 1) : Score(secs[j], qry) < Score(secs[i], qry)
           rest == [j \in 1..(Len(secs) - 1) |-> IF j < best THEN secs[j] ELSE secs[j + 1]]
       IN  <<secs[best]>> \o SortByScore(rest, qry)

\* Variant: the loop has no budget test and takes every scored section.
TakeTop_All(scored, total) == scored

\* The loop over scored: it stops at the first section that does not fit.
RECURSIVE TakeTop(_, _)
TakeTop(scored, total) ==
  IF scored = << >> \/ total + StrLen(Head(scored)) > SECTION_BUDGET THEN << >>
  ELSE <<Head(scored)>> \o TakeTop(Tail(scored), total + StrLen(Head(scored)))

RuleSep == <<E, E, Ln(3, 0, "rule"), E, E>>

_extract_relevant_sections(ocr_text, qry) ==
  LET split    == SplitSections(ocr_text)
      sections == IF Len(split) <= 1 THEN SlidingWindows(ocr_text) ELSE split
      Hit(sec) == Score(sec, qry) > 0
      scored   == SortByScore(SelectSeq(sections, Hit), qry)
  IN  IF scored = << >> THEN Prefix(ocr_text, SECTION_BUDGET)
      ELSE Join(TakeTop(scored, 0), RuleSep)

\* _build_context_for_doc: the OCR text when the file is there and not blank
\* (whole, or the relevant sections, or its head), else the tree summaries.
_build_context_for_doc(d, qry) ==
  LET ocr_text == IF ocr_files[d].exists THEN Strip(ocr_files[d].text) ELSE EmptyStr
  IN  IF StrLen(ocr_text) > 0
      THEN IF StrLen(ocr_text) <= MAX_FULL THEN ocr_text
           ELSE IF qry # << >> THEN _extract_relevant_sections(ocr_text, qry)
           ELSE Prefix(ocr_text, MAX_FULL)
      ELSE IF d \in indices THEN tree_text[d] ELSE EmptyStr

\* f"=== Documento {did} ===\n" for an id of one digit
Header == <<Ln(19, 0, "header"), E>>

\* "\n\n"
ParaSep == <<E, E, E>>

\* "\n\n[CONTEXTO TRUNCADO]"
Marker == <<E, E, Ln(19, 0, "marker")>>

NO_DOCS == "No hay documentos indexados disponibles para responder."
NO_ANSWER == "No se pudo generar respuesta."

\* str(r["id"])
IdStr(n) == CASE n = 1 -> "1" [] n = 2 -> "2" [] n = 3 -> "3" [] n = 4 -> "4"
                [] n = 5 -> "5" [] n = 6 -> "6" [] OTHER -> "9"

FTS_LIMIT == 5

fts_search_NoLimit(rows, limit) == rows

\* database.fts_search(query, limit): ORDER BY rank LIMIT ?
fts_search(rows, limit) == SubSeq(rows, 1, IF Len(rows) < limit THEN Len(rows) ELSE limit)

\* list(self._indices.keys())
IndexKeys == LET IdOf(d) == CHOOSE n \in {1, 2, 9} : IdStr(n) = d
                 nums == SortedSeq({IdOf(d) : d \in indices})
             IN  [i \in 1..Len(nums) |-> IdStr(nums[i])]

\* Lines 194-210: which documents to use.
Discover ==
  /\ q_pc = "start"
  /\ LET found == IF doc_ids # << >> THEN doc_ids
                  ELSE IF fts_result.ok
                       THEN LET fts_results == fts_search(fts_result.rows, FTS_LIMIT)
                            IN  [i \in 1..Len(fts_results) |-> IdStr(fts_results[i])]
                       ELSE IndexKeys
     IN  target_ids' = IF found = << >> THEN IndexKeys ELSE found
  /\ q_pc' = "build"
  /\ UNCHANGED <<indices, ocr_files, tree_text, query, doc_ids, fts_result, q_i, did, ctx,
                 context_parts, used_ids, full_context, llm_calls, q_return>>
  /\ UNCHANGED <<pipeVars, oVars, xVars, gVars, dVars>>

Usable_Always(c) == TRUE

\* if ctx
Usable(c) == StrLen(c) > 0

\* Lines 216-223: one iteration of the loop over target_ids.
BuildContext ==
  /\ q_pc = "build"
  /\ q_i < Len(target_ids)
  /\ q_i' = q_i + 1
  /\ did' = target_ids[q_i + 1]
  /\ IF did' \notin indices
     THEN UNCHANGED <<ctx, context_parts, used_ids>>
     ELSE /\ ctx' = _build_context_for_doc(did', query)
          /\ IF Usable(ctx')
             THEN /\ context_parts' = Append(context_parts, Cat(Header, ctx'))
                  /\ used_ids' = Append(used_ids, did')
             ELSE UNCHANGED <<context_parts, used_ids>>
  /\ UNCHANGED <<q_pc, indices, ocr_files, tree_text, query, doc_ids, fts_result, target_ids,
                 full_context, llm_calls, q_return>>
  /\ UNCHANGED <<pipeVars, oVars, xVars, gVars, dVars>>

NoContext_Never(parts) == FALSE

\* if not context_parts
NoContext(parts) == parts = << >>

\* Lines 225-231: nothing to show the model, or the contexts joined.
JoinContext ==
  /\ q_pc = "build"
  /\ q_i = Len(target_ids)
  /\ IF NoContext(context_parts)
     THEN /\ q_return' = [answer |-> NO_DOCS, sources |-> << >>]
          /\ q_pc' = "done"
          /\ UNCHANGED full_context
     ELSE /\ full_context' = Join(context_parts, ParaSep)
          /\ q_pc' = "truncate"
          /\ UNCHANGED q_return
  /\ UNCHANGED <<indices, ocr_files, tree_text, query, doc_ids, fts_result, target_ids, q_i, did,
                 ctx, context_parts, used_ids, llm_calls>>
  /\ UNCHANGED <<pipeVars, oVars, xVars, gVars, dVars>>

\* Lines 236-245: cut the context to MAX_CONTEXT_CHARS, back to the last break
\* when that break lies in the second half, and append the marker.
Truncate ==
  /\ q_pc = "truncate"
  /\ IF StrLen(full_context) > MAX_CONTEXT_CHARS
     THEN LET truncated  == Prefix(full_context, MAX_CONTEXT_CHARS)
              last_break == Max({RfindBreak(truncated), RfindHeader(truncated)})
              kept       == IF last_break > MAX_CONTEXT_CHARS \div 2
                            THEN Prefix(truncated, last_break) ELSE truncated
          IN  full_context' = Cat(kept, Marker)
     ELSE UNCHANGED full_context
  /\ q_pc' = "llm"
  /\ UNCHANGED <<indices, ocr_files, tree_text, query, doc_ids, fts_result, target_ids, q_i, did,
                 ctx, context_parts, used_ids, llm_calls, q_return>>
  /\ UNCHANGED <<pipeVars, oVars, xVars, gVars, dVars>>

\* Lines 248-262: the prompt goes to generate_completion, which returns the
\* model's text or "" (it never raises); "" gives the stock reply.
Llm ==
  /\ q_pc = "llm"
  /\ llm_calls' = llm_calls + 1
  /\ \E answer \in {"respuesta", ""} :
       q_return' = [answer  |-> IF answer = "" THEN NO_ANSWER ELSE answer,
                    sources |-> used_ids]
  /\ q_pc' = "done"
  /\ UNCHANGED <<indices, ocr_files, tree_text, query, doc_ids, fts_result, target_ids, q_i, did,
                 ctx, context_parts, used_ids, full_context>>
  /\ UNCHANGED <<pipeVars, oVars, xVars, gVars, dVars>>

\* ------------------------------------------------ questions that are asked

DocIds == {"1", "2"}

T(n, k) == Ln(n, k, "text")
P == Ln(9, 0, "page")

\* What process_pdf_ocr writes: a title line, then "## Page N" and the page text.
SmallDoc == <<T(30, 0), E, P, E, T(100, 1)>>
HalfDoc  == <<T(30, 0), E, P, E, T(99000, 1)>>
FullDoc  == <<T(30, 0), E, P, E, T(179900, 1)>>
BigPaged == <<T(30, 0), E, P, E, T(70000, 0), E, P, E, T(70000, 2), E, P, E, T(70000, 1)>>
HugePage == <<T(30, 0), E, P, E, T(200000, 1)>>
\* A page in which the words of the question are frequent, then the one
\* article the question names: its heading and its text.
ArticleHeading == Ln(26, 2, "article")
ArticleDoc == <<T(30, 0), E, P, E, T(100000, 5), E, ArticleHeading, E, T(90000, 0)>>
\* Text without page headings.
Unpaged  == [i \in 1..50 |-> T(4000, IF i = 45 THEN 1 ELSE 0)]
HugeLine == <<T(200000, 1)>>
Blank    == <<E, E>>

OcrFiles ==
  {[exists |-> FALSE, text |-> EmptyStr]}
  \cup {[exists |-> TRUE, text |-> t] :
          t \in {Blank, SmallDoc, HalfDoc, FullDoc, BigPaged, HugePage, ArticleDoc, Unpaged,
                 HugeLine}}

TreeTexts == {EmptyStr, <<T(50, 0)>>}

Queries == {<< >>, <<2>>, <<2, 6>>}

DocIdLists == {<< >>, <<"1">>, <<"2", "1">>, <<"9">>}

FtsResults == {[ok |-> FALSE, rows |-> << >>]}
              \cup {[ok |-> TRUE, rows |-> r] : r \in {<< >>, <<1>>, <<1, 2>>, <<3, 2, 1, 4, 5, 6>>}}

SearchInit ==
  /\ Boot(0)
  /\ FORCE_INDEXING = FALSE
  /\ NoExtract
  /\ NoCompletion
  /\ NoDocQuery
  /\ NoOther
  /\ q_pc = "start"
  /\ indices \in SUBSET DocIds
  /\ ocr_files \in [DocIds -> OcrFiles]
  /\ tree_text \in [DocIds -> TreeTexts]
  /\ query \in Queries
  /\ doc_ids \in DocIdLists
  /\ fts_result \in FtsResults
  /\ target_ids = << >>
  /\ q_i = 0
  /\ did = NULL
  /\ ctx = EmptyStr
  /\ context_parts = << >>
  /\ used_ids = << >>
  /\ full_context = EmptyStr
  /\ llm_calls = 0
  /\ q_return = [answer |-> "none", sources |-> << >>]

SearchNext == Discover \/ BuildContext \/ JoinContext \/ Truncate \/ Llm

SearchSpec == SearchInit /\ [][SearchNext]_vars

\* ---------------------------------------------------------------- C16, C17

\* "\n\n".join(context_parts): the concatenation before it is cut.
Joined == Join(context_parts, ParaSep)

ContextBuilt == q_pc \in {"llm", "done"} /\ context_parts # << >>

\* C16: when the concatenated contexts exceed the context budget, the context
\* that goes into the prompt, truncation marker included, is no longer than the
\* budget.
C16_ContextWithinBudget ==
  (ContextBuilt /\ StrLen(Joined) > MAX_CONTEXT_CHARS)
    => /\ full_context[Len(full_context)].kind = "marker"
       /\ StrLen(full_context) <= MAX_CONTEXT_CHARS

\* Offsets of s at which a paragraph ends in front of a blank line, or a
\* document's text ends in front of the next document's header.
BreakOffsets(s) ==
  {LineStart(s, i) - 1 : i \in {j \in 2..Len(s) : s[j].len = 0 \/ s[j].kind = "header"}}

\* C17: when the concatenation exceeds the budget, the text that is kept is the
\* concatenation up to a paragraph break or document separator at or before the
\* budget, followed by the truncation marker; when it fits, it is passed on
\* unchanged and without marker.
C17_CutAtBreak ==
  ContextBuilt =>
    IF StrLen(Joined) > MAX_CONTEXT_CHARS
    THEN \E k \in BreakOffsets(Joined) :
           /\ k <= MAX_CONTEXT_CHARS
           /\ full_context = Cat(Prefix(Joined, k), Marker)
    ELSE full_context = Joined

\* --------------------------------------------------------------------- C18

\* The text read from the OCR file of d is not blank and too long to be sent whole.
LargeOcr(d) == ocr_files[d].exists /\ StrLen(Strip(ocr_files[d].text)) > MAX_FULL

\* No line of the text contains a keyword of the query.
NoHit(d) == Score(Strip(ocr_files[d].text), query) = 0

\* C18: for a non-empty document above the full-inclusion threshold and a
\* non-empty query, the context extracted for the document is never empty: it is
\* the leading slice of the text up to the budget when nothing scores, and at
\* least one section otherwise.
C18_ExtractionNeverEmpty ==
  (q_i > 0 /\ did \in indices /\ LargeOcr(did) /\ query # << >>)
    => /\ StrLen(ctx) > 0
       /\ NoHit(did) => ctx = Prefix(Strip(ocr_files[did].text), SECTION_BUDGET)

\* --------------------------------------------------------------------- C20

\* No target document yields a usable context: it is not in the index cache, or
\* the context built for it is empty.
NoUsableContext ==
  \A i \in 1..Len(target_ids) :
    target_ids[i] \notin indices \/ StrLen(_build_context_for_doc(target_ids[i], query)) = 0

\* C20: when no target document yields a usable context (also when there is no
\* document at all), SearchEngine.query returns the fixed no-documents answer
\* with no sources, and the language model has not been called.
C20_NoContextNoLlm ==
  (q_pc \in {"truncate", "llm", "done"} /\ NoUsableContext)
    => /\ q_pc = "done"
       /\ q_return = [answer |-> NO_DOCS, sources |-> << >>]
       /\ llm_calls = 0

\* The stock answer is returned for target documents that are indexed but give
\* no context.
C20_Witness ==
  /\ q_pc = "done"
  /\ q_return.answer = NO_DOCS
  /\ llm_calls = 0
  /\ \E i \in 1..Len(target_ids) : target_ids[i] \in indices

\* ---------------------------------------------------- src/query_engine.py

CHUNK_LINES == 500

\* traverse(nodes): every node of the tree, parents before their children.
RECURSIVE traverse(_)
traverse(nodes) ==
  IF nodes = << >> THEN << >>
  ELSE <<Head(nodes)>> \o traverse(Head(nodes).nodes) \o traverse(Tail(nodes))

\* node_map: node_id -> line_num; a later node with the same id replaces an
\* earlier one.
node_map(flat) ==
  [nid \in {flat[i].node_id : i \in DOMAIN flat} |->
     LET last == CHOOSE i \in DOMAIN flat :
                   /\ flat[i].node_id = nid
                   /\ \A j \in DOMAIN flat : flat[j].node_id = nid => j <= i
     IN  flat[last].line_num]

\* all_starts = sorted(line numbers of node_map): the sorted set is searched
\* for its first element beyond the line, so duplicates play no part.
all_starts(nmap) == SortedSeq({nmap[nid] : nid \in DOMAIN nmap})

next_start_NotStrict(starts, line_num) ==
  LET later == {i \in DOMAIN starts : starts[i] >= line_num}
  IN  IF later = {} THEN 0 ELSE starts[CHOOSE i \in later : \A j \in later : i <= j]

\* The loop over all_starts: the first start greater than line_num; 0 for None.
next_start(starts, line_num) ==
  LET later == {i \in DOMAIN starts : starts[i] > line_num}
  IN  IF later = {} THEN 0 ELSE starts[CHOOSE i \in later : \A j \in later : i <= j]

\* lines[start_line_idx:end_line_idx] as the 1-based numbers of its first and
\* last line; the slice stops at the end of the file.
Slice(start_line_idx, end_line_idx) ==
  [from |-> start_line_idx + 1,
   to   |-> IF end_line_idx < num_lines THEN end_line_idx ELSE num_lines]

limit_chunk_Off(start_line_idx, end_line_idx) == end_line_idx

\* Lines 212-214: "Limit chunk size just in case (e.g. 500 lines)".
limit_chunk(start_line_idx, end_line_idx) ==
  IF end_line_idx - start_line_idx > CHUNK_LINES
  THEN start_line_idx + CHUNK_LINES ELSE end_line_idx

\* Lines 191-217: the chunk of one selected node.
Chunk(nid, nmap) ==
  LET start_line_idx == nmap[nid] - 1
      nxt            == next_start(all_starts(nmap), nmap[nid])
      end_line_idx   == IF nxt # 0 THEN nxt - 1 ELSE num_lines
      capped         == limit_chunk(start_line_idx, end_line_idx)
  IN  [node |-> nid] @@ Slice(start_line_idx, capped)

\* What _extract_text_for_nodes returns: "" when the file cannot be read, else
\* one chunk per selected node id that the tree knows, in the order of node_ids.
ExtractChunks(ids) ==
  IF ~md_readable THEN << >>
  ELSE LET nmap     == node_map(traverse(structure))
           Known(n) == n \in DOMAIN nmap
           known    == SelectSeq(ids, Known)
       IN  [i \in 1..Len(known) |-> Chunk(known[i], nmap)]

\* A call of _extract_text_for_nodes(node_ids, index_data, md_path).
_extract_text_for_nodes ==
  /\ x_pc = "start"
  /\ x_pc' = "done"
  /\ extracted_chunks' = ExtractChunks(node_ids)
  /\ UNCHANGED <<structure, md_readable, num_lines, node_ids>>
  /\ UNCHANGED <<pipeVars, oVars, qVars, gVars, dVars>>

\* Start lines of sections and lengths of files, below and above CHUNK_LINES.
StartLines == {10, 40, 90, 600}
FileLengths == {95, 650, 1200}

Node(nid, line, children) == [node_id |-> nid, line_num |-> line, nodes |-> children]

\* Index trees as the indexer writes them: every node has an id and a line.
Trees ==
  {<<Node("0001", a, << >>)>> : a \in StartLines}
  \cup {<<Node("0001", a, <<Node("0002", b, << >>)>>), Node("0003", c, <<Node("0004", d, << >>)>>)>> :
          a \in StartLines, b \in StartLines, c \in StartLines, d \in StartLines}

NodeIdLists == {<< >>, <<"0001">>, <<"0003", "0002">>, <<"0002", "0003", "0004">>, <<"0009", "0004">>}

ExtractInit ==
  /\ Boot(0)
  /\ FORCE_INDEXING = FALSE
  /\ NoSearch
  /\ NoCompletion
  /\ NoDocQuery
  /\ NoOther
  /\ x_pc = "start"
  /\ structure \in Trees
  /\ md_readable \in BOOLEAN
  /\ num_lines \in FileLengths
  /\ node_ids \in NodeIdLists
  /\ extracted_chunks = << >>

ExtractNext == _extract_text_for_nodes

ExtractSpec == ExtractInit /\ [][ExtractNext]_vars

\* --------------------------------------------------------------------- C19

\* Start line of a node of the tree, and the start lines of all its nodes.
StartOf(nid) == node_map(traverse(structure))[nid]
TreeStarts == {n.line_num : n \in {traverse(structure)[i] : i \in DOMAIN traverse(structure)}}

\* The lines from the node's start up to, not including, the smallest start
\* line of the whole tree that is greater, or up to the end of the file.
Extent(nid) ==
  {l \in 1..num_lines : l >= StartOf(nid) /\ \A t \in TreeStarts : t > StartOf(nid) => l < t}

ChunkLines(c) == {l \in 1..num_lines : c.from <= l /\ l <= c.to}

Returned == x_pc = "done" /\ md_readable

\* C19: each selected node gets the lines from its start line up to, but not
\* including, the smallest start line strictly greater than its own among all
\* nodes of the tree, or up to the end of the file.
C19_FullExtent ==
  Returned => \A i \in DOMAIN extracted_chunks :
                ChunkLines(extracted_chunks[i]) = Extent(extracted_chunks[i].node)

\* C19 (amended): each selected node gets the first CHUNK_LINES lines at most of
\* that extent.
C19_CappedExtent ==
  Returned =>
    /\ Len(extracted_chunks) = Cardinality({i \in DOMAIN node_ids : node_ids[i] \in DOMAIN node_map(traverse(structure))})
    /\ \A i \in DOMAIN extracted_chunks :
         ChunkLines(extracted_chunks[i]) =
           {l \in Extent(extracted_chunks[i].node) : l < StartOf(extracted_chunks[i].node) + CHUNK_LINES}

\* Start lines 10, 40, 40, 90: a node starting at 40 gets lines 40 to 89, and
\* the node at 90, whose extent runs to the end of a long file, gets 500 lines.
C19_Witness ==
  /\ Returned
  /\ \E i, j \in DOMAIN extracted_chunks :
       /\ extracted_chunks[i].from = 40 /\ extracted_chunks[i].to = 89
       /\ Cardinality({k \in DOMAIN traverse(structure) : traverse(structure)[k].line_num = 40}) = 2
       /\ TreeStarts = {10, 40, 90}
       /\ extracted_chunks[j].from = 90 /\ extracted_chunks[j].to = 589

\* --------------------------------------------------------------------- C21

\* C21: the target documents are the explicit subset, verbatim, when it is not
\* empty; otherwise the first five Full-Text Index results in rank order; and
\* all documents of the index cache when the index query raises or finds none.
C21_TargetSelection ==
  q_pc # "start" =>
    IF doc_ids # << >> THEN target_ids = doc_ids
    ELSE IF fts_result.ok /\ fts_result.rows # << >>
    THEN /\ Len(target_ids) <= 5
         /\ Len(target_ids) = 5 \/ Len(target_ids) = Len(fts_result.rows)
         /\ \A i \in DOMAIN target_ids : target_ids[i] = IdStr(fts_result.rows[i])
    ELSE /\ {target_ids[i] : i \in DOMAIN target_ids} = indices
         /\ Len(target_ids) = Cardinality(indices)

\* The index matched six documents and no subset was given.
C21_Witness ==
  /\ q_pc # "start"
  /\ doc_ids = << >>
  /\ fts_result.ok
  /\ Len(fts_result.rows) = 6
  /\ Len(target_ids) = 5

\* --------------------------------------------------------------------- C22

\* The target document is in the index cache and a non-empty context is built for it.
UsedTarget(d) == d \in indices /\ StrLen(_build_context_for_doc(d, query)) > 0

\* C22: the sources returned by SearchEngine.query are exactly the target ids,
\* in target order, that are in the index cache and yielded a non-empty context;
\* a target id that is not in the index cache is skipped.
C22_SourcesAreUsedTargets ==
  q_pc = "done" => q_return.sources = SelectSeq(target_ids, UsedTarget)

\* A query over two targets, one of them not in the index cache, was answered
\* from the other one.
C22_Witness ==
  /\ q_pc = "done"
  /\ llm_calls = 1
  /\ \E i \in DOMAIN target_ids : target_ids[i] \notin indices
  /\ q_return.sources # << >>

\* --------------------------------------------------------------------- C27

\* States of a Document for which the stage the worker is about to run has
\* already been completed.
CompletedBefore(stage) ==
  CASE stage = "ocr"       -> {"ocr_ok", "normalizado", "clasificado"}
    [] stage = "normalize" -> {"normalizado", "clasificado"}
    [] stage = "classify"  -> {"clasificado"}
    [] OTHER               -> {}

\* C27: an attempt that found the Document of its content in a non-terminal
\* state works on that Document's id, registers no new row, and does not run a
\* stage that the Document has already completed.
C27_ResumesFromIncompleteStage ==
  \A w \in Workers :
    existing[w] # NoId =>
      /\ doc_id[w] = existing[w]
      /\ pc[w] # "register"
      /\ documentos[doc_id[w]].estado \notin CompletedBefore(pc[w])

\* --------------------------------------------------------------------- C28

\* C28: a classification that requires review while FORCE_INDEXING is off goes
\* to the review branch, which copies the item to the review holding area and
\* returns with the Document still clasificado, the index stage not run; every
\* other classification, so every one with FORCE_INDEXING on, goes to the index
\* stage.
C28_ReviewInsteadOfIndex ==
  [][ \A w \in Workers :
        /\ (pc[w] = "classify" /\ pc'[w] \in {"review", "index"})
             => (pc'[w] = "review"
                   <=> (documentos'[doc_id[w]].requiere_revision /\ ~FORCE_INDEXING))
        /\ (pc[w] = "review" /\ pc'[w] = "idle")
             => /\ review_queue'[filepath[w]] = processing[filepath[w]]
                /\ review_queue'[filepath[w]] # NoFile
                /\ documentos' = documentos
                /\ documentos[doc_id[w]].estado = "clasificado"
    ]_vars

\* An item was routed to the review holding area and its Document is clasificado.
C28_Witness ==
  /\ ~FORCE_INDEXING
  /\ \E w \in Workers : result[w] = "review" /\ review_queue["a.pdf"] # NoFile
  /\ \E d \in DOMAIN documentos : documentos[d].estado = "clasificado" /\ documentos[d].requiere_revision

\* --------------------------------------------------------------------- C29

\* C29: every chunk extracted for a selected node holds at most 500 lines,
\* however far the next start line or the end of the file is.
C29_ChunkAtMost500Lines ==
  Returned => \A i \in DOMAIN extracted_chunks :
                extracted_chunks[i].to - extracted_chunks[i].from + 1 <= 500

\* A node whose extent runs over more than 500 lines got a chunk of exactly 500.
C29_Witness ==
  /\ Returned
  /\ \E i \in DOMAIN extracted_chunks :
       /\ extracted_chunks[i].to - extracted_chunks[i].from + 1 = 500
       /\ Cardinality(Extent(extracted_chunks[i].node)) > 500

\* --------------------------------------------------------------------- C30

\* The lines of t occur in s, one after the other.
Contains(s, t) == \E k \in 0..(Len(s) - Len(t)) : SubSeq(s, k + 1, k + Len(t)) = t

\* The article headings of a text, and the section of one: from the heading up
\* to the line before the next heading of either kind, or to the end.
ArticleHeads(s) == {i \in 1..Len(s) : s[i].kind = "article"}

SectionAt(s, h) ==
  LET later == {i \in (h + 1)..Len(s) : s[i].kind \in {"page", "article"}}
  IN  SubSeq(s, h, IF later = {} THEN Len(s) ELSE (CHOOSE i \in later : \A j \in later : i <= j) - 1)

\* C30: when the keyword-scoring path is used for a document above the
\* full-inclusion threshold and the query names the article of the document's
\* only article heading, the context returned for the document contains that
\* heading's whole section.
C30_NamedArticleReturned ==
  (q_i > 0 /\ did \in indices /\ LargeOcr(did) /\ Keywords(query) # << >>)
    => LET text == Strip(ocr_files[did].text)
       IN  \A h \in ArticleHeads(text) :
             (ArticleHeads(text) = {h} /\ text[h].score > 0) => Contains(ctx, SectionAt(text, h))

\* ---------------------------------------------------------------------------
\* llm_utils.generate_completion: one request to the language-model service.
\* ---------------------------------------------------------------------------

\* How one call of client.messages.create can end: a message with text, or one
\* of the exception classes the function tells apart.
Outcomes == {"text", "rate_limit", "status_5xx", "status_4xx", "other"}

Retryable_Any(outcome) == outcome # "text"
\* The errors after which the loop sleeps and goes round again.
Retryable(outcome) == outcome \in {"rate_limit", "status_5xx"}

Backoff(n) == 2 ^ n

GcReturn(text) ==
  /\ g_pc' = "done"
  /\ g_result' = [state |-> "returned", text |-> text]

\* Entry of generate_completion: the key check and the cache lookup.
GcBegin ==
  /\ g_pc = "start"
  /\ IF ~key_valid THEN GcReturn("")
     ELSE IF use_cache /\ cached.hit THEN GcReturn(cached.text)
     ELSE IF g_attempt < MAX_RETRIES THEN g_pc' = "call" /\ UNCHANGED g_result
     ELSE GcReturn("")
  /\ UNCHANGED <<key_valid, use_cache, cached, g_attempt, api_calls, g_outcomes, sleeps>>
  /\ UNCHANGED <<pipeVars, oVars, qVars, xVars, dVars>>

\* One round of the loop up to the end of the try statement or the except
\* clause that ends the request.
GcCall ==
  /\ g_pc = "call"
  /\ \E outcome \in Outcomes :
       /\ api_calls' = api_calls + 1
       /\ g_outcomes' = Append(g_outcomes, outcome)
       /\ IF outcome = "text"
            THEN /\ GcReturn("respuesta")
                 /\ cached' = IF use_cache THEN [hit |-> TRUE, text |-> "respuesta"] ELSE cached
          ELSE IF Retryable(outcome)
            THEN g_pc' = "sleep" /\ UNCHANGED <<g_result, cached>>
          ELSE GcReturn("") /\ UNCHANGED cached
  /\ UNCHANGED <<key_valid, use_cache, g_attempt, sleeps>>
  /\ UNCHANGED <<pipeVars, oVars, qVars, xVars, dVars>>

\* asyncio.sleep(2 ** attempt) and the step of the loop; after the last round
\* the function logs and returns "".
GcSleep ==
  /\ g_pc = "sleep"
  /\ sleeps' = Append(sleeps, Backoff(g_attempt))
  /\ g_attempt' = g_attempt + 1
  /\ IF g_attempt + 1 < MAX_RETRIES THEN g_pc' = "call" /\ UNCHANGED g_result
     ELSE GcReturn("")
  /\ UNCHANGED <<key_valid, use_cache, cached, api_calls, g_outcomes>>
  /\ UNCHANGED <<pipeVars, oVars, qVars, xVars, dVars>>

CachedEntries == {[hit |-> FALSE, text |-> ""], [hit |-> TRUE, text |-> "respuesta"], [hit |-> TRUE, text |-> ""]}

CompletionInit ==
  /\ Boot(0)
  /\ NoSearch
  /\ NoExtract
  /\ NoDocQuery
  /\ NoOther
  /\ g_pc = "start"
  /\ key_valid \in BOOLEAN
  /\ use_cache \in BOOLEAN
  /\ cached \in CachedEntries
  /\ g_attempt = 0
  /\ api_calls = 0
  /\ g_outcomes = << >>
  /\ sleeps = << >>
  /\ g_result = [state |-> "none", text |-> ""]

CompletionNext == GcBegin \/ GcCall \/ GcSleep

CompletionSpec == CompletionInit /\ [][CompletionNext]_vars

Last(seq) == seq[Len(seq)]

\* C25: one request makes at most MAX_RETRIES calls to the service; every call
\* that was followed by another one ended in a rate-limit or 5xx error and was
\* followed by a wait of 2^attempt seconds; a call that ends in a non-5xx API
\* error or any other exception is the last one, and the request ends with it.
C25_BoundedRetries ==
  /\ api_calls <= MAX_RETRIES
  /\ Len(g_outcomes) = api_calls
  /\ Len(sleeps) <= api_calls
  /\ g_pc = "call" => Len(sleeps) = api_calls
  /\ \A i \in 1..Len(sleeps) :
       /\ g_outcomes[i] \in {"rate_limit", "status_5xx"}
       /\ sleeps[i] = 2 ^ (i - 1)
  /\ \A i \in 1..api_calls : i < api_calls => i <= Len(sleeps)
  /\ (api_calls > 0 /\ Last(g_outcomes) \in {"status_4xx", "other"}) =>
       /\ g_pc = "done"
       /\ g_result = [state |-> "returned", text |-> ""]
       /\ Len(sleeps) = api_calls - 1

C25_Witness ==
  /\ g_pc = "done"
  /\ api_calls = MAX_RETRIES
  /\ sleeps = <<1, 2>>
  /\ Last(g_outcomes) = "status_4xx"
  /\ g_result = [state |-> "returned", text |-> ""]

\* C26: when every call of a request ended in a transient error, so that the
\* retries are exhausted, generate_completion reports an error to its caller
\* instead of handing back a text.
C26_ExhaustionSurfacesAsFailure ==
  (g_pc = "done" /\ api_calls = MAX_RETRIES /\ Len(sleeps) = MAX_RETRIES) =>
    g_result.state = "raised"

\* ---------------------------------------------------------------------------
\* QueryEngine.query_document: tree search, extraction, answer generation.
\* ---------------------------------------------------------------------------

NOT_INDEXED == "Documento no encontrado o no indexado."
NO_SECTIONS == "No encontre secciones relevantes en el indice del documento para responder a tu pregunta."
MD_NOT_FOUND == "Archivo fuente Markdown no encontrado"

\* What generate_completion can hand to _tree_search: a text that is a JSON
\* object with a node_list, a JSON object without one, a JSON value that is not
\* an object (an array, null, a number), a text that is not JSON, or the empty
\* string; fence says whether the text is wrapped in ```json ... ```.
JsonKinds == {"object", "object_nolist", "not_object", "invalid", "blank"}

Responses ==
  {[fence |-> f, json |-> "object", node_list |-> l] : f \in BOOLEAN, l \in NodeIdLists}
  \cup {[fence |-> f, json |-> k, node_list |-> << >>] : f \in BOOLEAN, k \in JsonKinds \ {"object"}}

\* response_text.replace("```json", "").replace("```", "").strip()
CleanJson(t) == [t EXCEPT !.fence = FALSE]

\* json.loads: the value, or JSONDecodeError.
Loads(t) ==
  IF t.fence \/ t.json \in {"invalid", "blank"}
    THEN [type |-> "JSONDecodeError", has_node_list |-> FALSE, node_list |-> << >>]
  ELSE IF t.json = "not_object"
    THEN [type |-> "list", has_node_list |-> FALSE, node_list |-> << >>]
  ELSE [type |-> "dict", has_node_list |-> t.json = "object", node_list |-> t.node_list]

\* The value _tree_search returns for a response of the language model.
_tree_search(t) ==
  LET parsed == Loads(CleanJson(t))
  IN  IF parsed.type = "JSONDecodeError"
        THEN [type |-> "dict", has_node_list |-> TRUE, node_list |-> << >>]
      ELSE parsed

QdReturn(answer, error) ==
  /\ d_pc' = "done"
  /\ d_return' = [state |-> "returned", answer |-> answer, error |-> error]

QdRaise(error) ==
  /\ d_pc' = "done"
  /\ d_return' = [state |-> "raised", answer |-> "", error |-> error]

\* index_data = self.load_index(doc_id)
QdLoad ==
  /\ d_pc = "start"
  /\ IF ~index_found THEN QdReturn("", NOT_INDEXED)
     ELSE d_pc' = "tree_search" /\ UNCHANGED d_return
  /\ UNCHANGED <<index_found, md_exists, response_text, thinking_result, d_calls>>
  /\ UNCHANGED <<pipeVars, oVars, qVars, xVars, gVars>>

\* thinking_result = await self._tree_search(index_data, query)
QdTreeSearch ==
  /\ d_pc = "tree_search"
  /\ \E t \in Responses :
       /\ response_text' = t
       /\ thinking_result' = _tree_search(t)
  /\ d_calls' = Append(d_calls, "tree_search")
  /\ d_pc' = "select"
  /\ UNCHANGED <<index_found, md_exists, d_return>>
  /\ UNCHANGED <<pipeVars, oVars, qVars, xVars, gVars>>

\* node_ids = thinking_result.get('node_list', []) and the test of node_ids.
QdSelect ==
  /\ d_pc = "select"
  /\ IF thinking_result.type # "dict"
       THEN QdRaise("AttributeError") /\ UNCHANGED node_ids
     ELSE LET ids == IF thinking_result.has_node_list THEN thinking_result.node_list ELSE << >>
          IN  /\ node_ids' = ids
              /\ IF ids = << >> THEN QdReturn(NO_SECTIONS, "")
                 ELSE d_pc' = "locate" /\ UNCHANGED d_return
  /\ UNCHANGED <<index_found, md_exists, response_text, thinking_result, d_calls>>
  /\ UNCHANGED <<x_pc, structure, md_readable, num_lines, extracted_chunks>>
  /\ UNCHANGED <<pipeVars, oVars, qVars, gVars>>

\* md_path = self._get_md_path(index_data) and the test of the path.
QdLocate ==
  /\ d_pc = "locate"
  /\ IF ~md_exists THEN QdReturn("", MD_NOT_FOUND)
     ELSE d_pc' = "extract" /\ UNCHANGED d_return
  /\ UNCHANGED <<index_found, md_exists, response_text, thinking_result, d_calls>>
  /\ UNCHANGED <<pipeVars, oVars, qVars, xVars, gVars>>

\* context_text = self._extract_text_for_nodes(node_ids, index_data, md_path)
QdExtract ==
  /\ d_pc = "extract"
  /\ extracted_chunks' = ExtractChunks(node_ids)
  /\ d_pc' = "answer"
  /\ UNCHANGED <<index_found, md_exists, response_text, thinking_result, d_calls, d_return>>
  /\ UNCHANGED <<x_pc, structure, md_readable, num_lines, node_ids>>
  /\ UNCHANGED <<pipeVars, oVars, qVars, gVars>>

\* answer = await generate_completion(prompt, max_tokens=1000) and the return;
\* generate_completion hands back the text of the model, or "" when it failed.
QdAnswer ==
  /\ d_pc = "answer"
  /\ d_calls' = Append(d_calls, "answer")
  /\ \E answer \in {"respuesta", ""} : QdReturn(answer, "")
  /\ UNCHANGED <<index_found, md_exists, response_text, thinking_result>>
  /\ UNCHANGED <<pipeVars, oVars, qVars, xVars, gVars>>

DocQueryTrees == {<<Node("0001", a, << >>)>> : a \in StartLines}

DocQueryInit ==
  /\ Boot(0)
  /\ NoOther
  /\ FORCE_INDEXING = FALSE
  /\ NoSearch
  /\ NoCompletion
  /\ x_pc = "off"
  /\ structure \in DocQueryTrees
  /\ md_readable \in BOOLEAN
  /\ num_lines \in FileLengths
  /\ node_ids = << >>
  /\ extracted_chunks = << >>
  /\ d_pc = "start"
  /\ index_found \in BOOLEAN
  /\ md_exists \in BOOLEAN
  /\ response_text = [fence |-> FALSE, json |-> "blank", node_list |-> << >>]
  /\ thinking_result = [type |-> "none", has_node_list |-> FALSE, node_list |-> << >>]
  /\ d_calls = << >>
  /\ d_return = [state |-> "none", answer |-> "", error |-> ""]

DocQueryNext == QdLoad \/ QdTreeSearch \/ QdSelect \/ QdLocate \/ QdExtract \/ QdAnswer

DocQuerySpec == DocQueryInit /\ [][DocQueryNext]_vars

\* C23: every outcome of a query has a textual answer: SearchEngine.query and
\* query_document never raise, and what they return carries a non-empty answer
\* or a non-empty error text, whatever the language-model calls did.
C23_EveryOutcomeHasText ==
  /\ q_pc = "done" => q_return.answer # ""
  /\ d_pc = "done" =>
       /\ d_return.state = "returned"
       /\ d_return.answer # "" \/ d_return.error # ""

\* The response is not the structured result: after the code fences are taken
\* off it is not a JSON object.
NotStructured(t) == t.json \notin {"object", "object_nolist"}

\* C24: when the response to the tree search cannot be parsed as the structured
\* result, _tree_search yields an empty node list instead of raising, and
\* query_document returns the no-relevant-sections answer without making the
\* answer-generation call.
C24_UnparsableMeansNoSections ==
  (d_pc = "done" /\ d_calls # << >> /\ NotStructured(response_text)) =>
    /\ thinking_result.type = "dict"
    /\ thinking_result.node_list = << >>
    /\ d_return = [state |-> "returned", answer |-> NO_SECTIONS, error |-> ""]
    /\ d_calls = <<"tree_search">>

\* ---------------------------------------------------------------------------
\* The job-queue API beside a watcher that meets no injected failure.
\* ---------------------------------------------------------------------------

\* Every failure the environment may inject is already spent.
NoFaultInit == Boot(MaxFaults) /\ NoSearch /\ NoExtract /\ NoCompletion /\ NoDocQuery /\ NoOther

\* One watcher, fed one file name, and the callers of the job-queue API.  The
\* dead-letter code finds no row here (only a file that is no PDF fails, before
\* it is registered), so its two database steps are left out.
JobNext ==
  \/ \E c \in Contents : Submit("a.pdf", c)
  \/ Start("w1", "a.pdf")
  \/ Stabilize("w1") \/ Validate("w1") \/ Dedup("w1") \/ RegisterDocument("w1")
  \/ EnqueueJob("w1") \/ Move("w1") \/ Ocr("w1") \/ Normalize("w1") \/ Classify("w1")
  \/ Review("w1") \/ Index("w1") \/ MarkDone("w1")
  \/ DlMove("w1") \/ DlLookup("w1")
  \/ \E p \in Pollers :
       GetNextJobSelect(p) \/ GetNextJobUpdate(p) \/ JobDone(p) \/ JobFailed(p)

JobSpec == NoFaultInit /\ [][JobNext]_vars

C31_JobsReferToDocuments ==
  \A j \in DOMAIN job_queue : job_queue[j].doc_id \in DOMAIN documentos

\* C38: a query without an explicit subset returns the no-documents answer
\* only if no document of the index cache yields usable context; hits of the
\* Full-Text Index that are absent from the index cache do not keep other
\* indexed documents from being used.
C38_NoDocumentsOnlyIfNoneUsable ==
  (q_pc = "done" /\ doc_ids = << >> /\ q_return.answer = NO_DOCS) =>
    \A d \in indices : StrLen(_build_context_for_doc(d, query)) = 0

\* ---------------------------------------------------------------------------
\* Deleting documents through the API, then asking a question.
\* ---------------------------------------------------------------------------

\* The row of a document that went through every stage of _run_pipeline.
IndexedRow(nombre, h) ==
  update_indexed(
    update_document_classification(
      update_norm_path(update_ocr_data(NewDocumento(nombre, h))), "amparo", FALSE))

\* The state main() is in after a.pdf and b.pdf were uploaded and indexed
\* without a failure: two rows, their index entries, two finished jobs, the
\* staged copies; the watcher is idle.
Ingested ==
  /\ input        = [n \in Names |-> NoFile]
  /\ processing   = [n \in Names |-> IF n = "a.pdf" THEN "h1" ELSE "h2"]
  /\ dead_letter  = [n \in Names |-> NoFile]
  /\ review_queue = [n \in Names |-> NoFile]
  /\ events = {}
  /\ submits = 2
  /\ documentos = <<IndexedRow("a.pdf", "h1"), IndexedRow("b.pdf", "h2")>>
  /\ doc_seq = 2
  /\ documentos_fts = Postings(1, FtsRow(IndexedRow("a.pdf", "h1")))
                      \cup Postings(2, FtsRow(IndexedRow("b.pdf", "h2")))
  /\ job_queue = <<mark_job_done(<<NewJob(1)>>, 1)[1], mark_job_done(<<NewJob(2)>>, 1)[1]>>
  /\ pc       = [w \in Workers |-> "idle"]
  /\ filepath = [w \in Workers |-> "a.pdf"]
  /\ attempt  = [w \in Workers |-> 0]
  /\ excs     = [w \in Workers |-> << >>]
  /\ faults   = [w \in Workers |-> 0]
  /\ runs     = [w \in Workers |-> 0]
  /\ file_hash = [w \in Workers |-> NoFile]
  /\ existing = [w \in Workers |-> NoId]
  /\ doc_id   = [w \in Workers |-> NoId]
  /\ job_id   = [w \in Workers |-> NoId]
  /\ dl_doc   = [w \in Workers |-> NoId]
  /\ result   = [w \in Workers |-> "ok"]
  /\ poll_pc  = [p \in Pollers |-> "idle"]
  /\ poll_job = [p \in Pollers |-> NoId]
  /\ polls = 0
  /\ failed_ret = "none"

\* The index files create_index wrote for the two documents; nothing in the
\* program removes them.
IndexFiles == {"1", "2"}

\* The lists of distinct ids out of a set, of every length: what a MATCH query
\* can rank.
Ranked(ids) ==
  {<< >>} \cup {<<a>> : a \in ids} \cup {r \in ids \X ids : r[1] # r[2]}

\* api.delete_document -> database.delete_document while no question is being
\* answered.  get_document_by_id finds no row afterwards, so the OCR text that
\* the row's ocr_path led to is out of reach of _build_context_for_doc.
DeleteThenAsk(d) ==
  /\ q_pc = "off"
  /\ d \in DOMAIN documentos
  /\ documentos' = [ k \in (DOMAIN documentos) \ {d} |-> documentos[k] ]
  /\ documentos_fts' = documentos_ad(documentos_fts, d, documentos[d])
  /\ ocr_files' = [ocr_files EXCEPT ![IdStr(d)] = [exists |-> FALSE, text |-> EmptyStr]]
  /\ UNCHANGED <<q_pc, indices, tree_text, query, doc_ids, fts_result, target_ids, q_i, did,
                 ctx, context_parts, used_ids, full_context, llm_calls, q_return>>
  /\ UNCHANGED <<doc_seq, job_queue, fsVars, wVars, pollVars, envVars, xVars, gVars, dVars, oVars>>

\* SearchEngine.query is called: self._refresh() loads every index file into
\* the cache; the Full-Text Index can match only rows that exist.
QueryBegin ==
  /\ q_pc = "off"
  /\ q_pc' = "start"
  /\ indices' = indices \cup IndexFiles
  /\ query' \in Queries
  /\ doc_ids' \in DocIdLists
  /\ fts_result' \in {[ok |-> FALSE, rows |-> << >>]}
                     \cup {[ok |-> TRUE, rows |-> r] : r \in Ranked(DOMAIN documentos)}
  /\ UNCHANGED <<ocr_files, tree_text, target_ids, q_i, did, ctx, context_parts, used_ids,
                 full_context, llm_calls, q_return>>
  /\ UNCHANGED <<pipeVars, oVars, xVars, gVars, dVars>>

DeleteInit ==
  /\ Ingested
  /\ injected = 0
  /\ FORCE_INDEXING = FALSE
  /\ NoExtract
  /\ NoCompletion
  /\ NoDocQuery
  /\ NoOther
  /\ q_pc = "off"
  /\ indices = {}
  /\ ocr_files \in [DocIds -> {[exists |-> FALSE, text |-> EmptyStr], [exists |-> TRUE, text |-> SmallDoc]}]
  /\ tree_text \in [DocIds -> TreeTexts]
  /\ query = << >>
  /\ doc_ids = << >>
  /\ fts_result = [ok |-> TRUE, rows |-> << >>]
  /\ target_ids = << >>
  /\ q_i = 0
  /\ did = NULL
  /\ ctx = EmptyStr
  /\ context_parts = << >>
  /\ used_ids = << >>
  /\ full_context = EmptyStr
  /\ llm_calls = 0
  /\ q_return = [answer |-> "none", sources |-> << >>]

DeleteNext ==
  \/ \E d \in DOMAIN documentos : DeleteThenAsk(d)
  \/ QueryBegin
  \/ Discover \/ BuildContext \/ JoinContext \/ Truncate \/ Llm

DeleteSpec == DeleteInit /\ [][DeleteNext]_vars

\* C37: after delete_document(d) has removed a Document, no later query lists
\* d among its sources or uses d's content as evidence.
C37_DeletedNeverUsed ==
  q_pc = "done" =>
    /\ \A i \in DOMAIN q_return.sources :
         \E d \in DOMAIN documentos : q_return.sources[i] = IdStr(d)
    /\ \A i \in DOMAIN used_ids :
         \E d \in DOMAIN documentos : used_ids[i] = IdStr(d)

\* --------------------------------------------------------------------- C35

\* The sections of a large text that contain a keyword, the highest score first.
ScoredSections(text, qry) ==
  LET split    == SplitSections(text)
      sections == IF Len(split) <= 1 THEN SlidingWindows(text) ELSE split
      Hit(sec) == Score(sec, qry) > 0
  IN  SortByScore(SelectSeq(sections, Hit), qry)

RECURSIVE SumStrLen(_)
SumStrLen(secs) == IF secs = << >> THEN 0 ELSE StrLen(Head(secs)) + SumStrLen(Tail(secs))

\* C35: keyword-scored extraction includes sections in descending score order
\* and stops at the first section that would push the total of the included
\* lengths over the budget: what it returns is made of a prefix of the
\* score-ordered list of the positively scored sections, whose lengths sum to
\* at most 180,000, and the next section of the list, if any, does not fit.
C35_PrefixOfScoreOrder ==
  (q_i > 0 /\ did \in indices /\ LargeOcr(did) /\ Keywords(query) # << >>) =>
    LET ordered == ScoredSections(Strip(ocr_files[did].text), query)
    IN  ordered # << >> =>
          /\ \A i \in 1..Len(ordered) : \A j \in i..Len(ordered) :
               SumScore(ordered[i]) >= SumScore(ordered[j]) /\ SumScore(ordered[j]) > 0
          /\ \E k \in 0..Len(ordered) :
               /\ ctx = Join(SubSeq(ordered, 1, k), RuleSep)
               /\ SumStrLen(SubSeq(ordered, 1, k)) <= 180000
               /\ k < Len(ordered) => SumStrLen(SubSeq(ordered, 1, k + 1)) > 180000

\* Two sections contain keywords and the second of them no longer fits.
C35_Witness ==
  /\ q_i > 0 /\ did \in indices /\ LargeOcr(did) /\ Keywords(query) # << >>
  /\ LET ordered == ScoredSections(Strip(ocr_files[did].text), query)
     IN  /\ Len(ordered) = 2
         /\ ctx = ordered[1]
         /\ StrLen(ordered[1]) + StrLen(ordered[2]) > 180000

\* ---------------------------------------------------------------------------
\* llm_utils: the prompt cache of generate_completion.
\* ---------------------------------------------------------------------------

_CACHE_MAX == 256

\* A prompt is its first 400 characters and what follows them.
Prompts == {[head |-> "A", rest |-> "x"], [head |-> "A", rest |-> "y"], [head |-> "B", rest |-> "x"]}

Texts == {"t1", "t2"}

\* hashlib.md5(prompt[:400].encode()).hexdigest(): a digest of the first 400
\* characters only.
_cache_key(p) == <<"md5", p.head>>

CacheIndex(cache, key) == {i \in 1..Len(cache) : cache[i].key = key}

\* _CACHE.get(_cache_key(prompt)): the position of the entry, 0 for None.
_get_cached(cache, p) ==
  IF CacheIndex(cache, _cache_key(p)) = {} THEN 0
  ELSE CHOOSE i \in CacheIndex(cache, _cache_key(p)) : TRUE

\* _set_cached: the oldest entry goes when the cache is full; the entry of the
\* key is overwritten where it stands, a new key goes to the end.
_set_cached(cache, p, text) ==
  LET kept  == IF Len(cache) >= _CACHE_MAX THEN Tail(cache) ELSE cache
      entry == [key |-> _cache_key(p), text |-> text, prompt |-> p]
      at    == CacheIndex(kept, _cache_key(p))
  IN  IF at = {} THEN Append(kept, entry)
      ELSE [i \in 1..Len(kept) |-> IF i \in at THEN entry ELSE kept[i]]

\* One request generate_completion(prompt, use_cache=u) with a valid key, from
\* the cache lookup to the return; the retry loop either gets a text or gives up.
Complete(p, u) ==
  /\ c_pc' = "done"
  /\ c_prompt' = p
  /\ IF u /\ _get_cached(_CACHE, p) # 0
       THEN /\ c_return' = [text   |-> _CACHE[_get_cached(_CACHE, p)].text,
                            cached |-> TRUE,
                            prompt |-> _CACHE[_get_cached(_CACHE, p)].prompt]
            /\ UNCHANGED _CACHE
       ELSE \/ \E text \in Texts :
                 /\ c_return' = [text |-> text, cached |-> FALSE, prompt |-> p]
                 /\ _CACHE' = IF u THEN _set_cached(_CACHE, p, text) ELSE _CACHE
            \/ /\ c_return' = [text |-> "", cached |-> FALSE, prompt |-> p]
               /\ UNCHANGED _CACHE
  /\ UNCHANGED <<pipeVars, qVars, xVars, gVars, dVars, mVars, fVars>>

CacheInit ==
  /\ Boot(0)
  /\ FORCE_INDEXING = FALSE
  /\ NoSearch
  /\ NoExtract
  /\ NoCompletion
  /\ NoDocQuery
  /\ NoOther

CacheNext == \E p \in Prompts, u \in BOOLEAN : Complete(p, u)

CacheSpec == CacheInit /\ [][CacheNext]_vars

\* C40: with use_cache on, generate_completion returns a cached completion
\* only for a prompt identical to the prompt that completion was generated
\* for: two different prompts never share a cache entry.
C40_CachedOnlyForSamePrompt ==
  (c_pc = "done" /\ c_return.cached) => c_return.prompt = c_prompt

\* ---------------------------------------------------------------------------
\* database.fts_search: the MATCH query and its LIKE fallback.
\* ---------------------------------------------------------------------------

\* Text is a sequence of characters: the letters a and x, the underscore and
\* the hyphen.  A hyphen in a MATCH expression is an FTS5 syntax error, which
\* SQLite reports as sqlite3.OperationalError.
Malformed(q) == \E i \in 1..Len(q) : q[i] = "-"

Letter(c) == c \in {"a", "x"}

\* q is a word of t: a maximal run of letters, as the FTS5 tokenizer cuts them.
TokenOf(w, t) ==
  \E i \in 1..Len(t) : \E j \in i..Len(t) :
    /\ SubSeq(t, i, j) = w
    /\ \A k \in i..j : Letter(t[k])
    /\ i = 1 \/ ~Letter(t[i - 1])
    /\ j = Len(t) \/ ~Letter(t[j + 1])

\* WHERE documentos_fts MATCH ?: the query is a word of the name or the type.
Match(q, row) == TokenOf(q, row.nombre_archivo) \/ TokenOf(q, row.tipo_documento)

\* column LIKE '%' || q || '%': q occurs in the text, an underscore of q
\* standing for any one character.
Like(q, t) ==
  \E k \in 0..(Len(t) - Len(q)) :
    \A i \in 1..Len(q) : q[i] = "_" \/ q[i] = t[k + i]

\* WHERE nombre_archivo LIKE ? OR tipo_documento LIKE ?; a NULL type matches
\* nothing.
LikeRow(q, row) ==
  Like(q, row.nombre_archivo) \/ (row.tipo_documento # << >> /\ Like(q, row.tipo_documento))

\* LIMIT ?
Limit(rows, n) == SubSeq(rows, 1, IF Len(rows) < n THEN Len(rows) ELSE n)

\* fts_search(query, limit): the MATCH query; on sqlite3.OperationalError the
\* LIKE query; the connection is closed either way.
FtsSearch ==
  /\ f_pc = "start"
  /\ f_pc' = "done"
  /\ LET Matches(row) == Match(f_query, row)
         Likes(row)   == LikeRow(f_query, row)
     IN  f_return' =
           [state |-> "returned",
            rows  |-> IF Malformed(f_query)
                        THEN Limit(SelectSeq(f_table, Likes), f_limit)
                        ELSE Limit(SelectSeq(f_table, Matches), f_limit)]
  /\ UNCHANGED <<f_table, f_query, f_limit>>
  /\ UNCHANGED <<pipeVars, qVars, xVars, gVars, dVars, mVars, cVars>>

FtsNames == {<<"a", "_", "-">>, <<"a", "x", "-">>, <<"x">>}
FtsTypes == {<< >>, <<"a">>}
FtsRows == {[nombre_archivo |-> n, tipo_documento |-> t] : n \in FtsNames, t \in FtsTypes}
FtsQueries == {<<"-">>, <<"_", "-">>, <<"a", "_", "-">>, <<"x", "-">>, <<"a">>, <<"x">>}

FtsInit ==
  /\ Boot(0)
  /\ FORCE_INDEXING = FALSE
  /\ NoSearch
  /\ NoExtract
  /\ NoCompletion
  /\ NoDocQuery
  /\ NoStartup
  /\ NoCache
  /\ f_pc = "start"
  /\ f_table \in {<< >>} \cup {<<r>> : r \in FtsRows} \cup {<<r, t>> : r \in FtsRows, t \in FtsRows}
  /\ f_query \in FtsQueries
  /\ f_limit \in {1, 2}
  /\ f_return = [state |-> "none", rows |-> << >>]

FtsNext == FtsSearch

FtsSpec == FtsInit /\ [][FtsNext]_vars

\* q occurs in t as it stands.
IsSubstring(q, t) == \E k \in 0..(Len(t) - Len(q)) : SubSeq(t, k + 1, k + Len(q)) = q

\* C32: fts_search never raises on a malformed full-text query: it returns the
\* documents whose name or type contains the query as a substring, up to the
\* limit.
C32_MalformedQueryFallsBack ==
  (f_pc = "done" /\ Malformed(f_query)) =>
    LET Has(row) == IsSubstring(f_query, row.nombre_archivo) \/ IsSubstring(f_query, row.tipo_documento)
        having   == SelectSeq(f_table, Has)
    IN  /\ f_return.state = "returned"
        /\ Len(f_return.rows) <= f_limit
        /\ \A i \in 1..Len(f_return.rows) : Has(f_return.rows[i])
        /\ Len(f_return.rows) = (IF Len(having) < f_limit THEN Len(having) ELSE f_limit)

\* C39: a Document in state indexed carries no error message: when a Document
\* that was in error is submitted again and reaches indexed, its recorded last
\* error is cleared.
C39_IndexedHasNoError ==
  \A d \in DOMAIN documentos :
    documentos[d].estado = "indexado" => documentos[d].error_mensaje = NULL

\* C34: dead-lettering an item marks as error only the Document created or
\* reused by that item's own pipeline attempts (doc_id of the worker): the
\* status update of add_to_dead_letter leaves every other Document as it was,
\* an indexed Document of an earlier submission included.
C34_DeadLetterMarksOwnDocument ==
  [][ \A w \in Workers :
        (pc[w] = "dl_status" /\ pc'[w] = "dl_jobs") =>
          \A d \in DOMAIN documentos :
            d # doc_id[w] => documentos'[d] = documentos[d]
    ]_vars

\* ---------------------------------------------------------------------------
\* main(): the start-up scan of INPUT_DIR, then the Observer.
\* ---------------------------------------------------------------------------

\* A PDF appears in INPUT_DIR under a name and with bytes not used before (so
\* that no file is left in place as a duplicate).  on_created is delivered only
\* by a started Observer.
Arrive(n, c) ==
  /\ UNCHANGED rVars
  /\ submits < MaxSubmits
  /\ FileNameIsNew(n)
  /\ \A m \in Names : input[m] # c /\ processing[m] # c /\ dead_letter[m] # c
  /\ n \notin scan_list
  /\ submits' = submits + 1
  /\ input' = [input EXCEPT ![n] = c]
  /\ events' = IF m_pc = "watching" THEN events \cup {n} ELSE events
  /\ UNCHANGED <<processing, dead_letter, review_queue, FORCE_INDEXING,
                 dbVars, wVars, pollVars>>

\* existing = [f for f in os.listdir(INPUT_DIR) if f.lower().endswith(".pdf")]
ListExisting ==
  /\ m_pc = "boot"
  /\ m_pc' = "scan"
  /\ scan_list' = {n \in Names : input[n] # NoFile}
  /\ UNCHANGED <<pipeVars, qVars, xVars, gVars, dVars, fVars, cVars>>

\* for fname in existing: process_document_sync(fpath), one after the other on
\* the main thread.
ScanStart(w, n) ==
  /\ m_pc = "scan"
  /\ n \in scan_list
  /\ pc[w] = "idle"
  /\ InRange(0)
  /\ scan_list' = scan_list \ {n}
  /\ pc'       = [pc EXCEPT ![w] = "stabilize"]
  /\ filepath' = [filepath EXCEPT ![w] = n]
  /\ attempt'  = [attempt EXCEPT ![w] = 0]
  /\ excs'     = [excs EXCEPT ![w] = << >>]
  /\ faults'   = [faults EXCEPT ![w] = 0]
  /\ runs'     = [runs EXCEPT ![w] = 1]
  /\ file_hash' = [file_hash EXCEPT ![w] = NoFile]
  /\ existing' = [existing EXCEPT ![w] = NoId]
  /\ doc_id'   = [doc_id EXCEPT ![w] = NoId]
  /\ job_id'   = [job_id EXCEPT ![w] = NoId]
  /\ dl_doc'   = [dl_doc EXCEPT ![w] = NoId]
  /\ result'   = [result EXCEPT ![w] = "none"]
  /\ UNCHANGED <<fsVars, dbVars, pollVars, events, submits, injected, FORCE_INDEXING>>
  /\ UNCHANGED <<m_pc, qVars, xVars, gVars, dVars, fVars, cVars>>

\* The loop is over: observer.schedule(handler, INPUT_DIR); observer.start().
StartObserver(w) ==
  /\ m_pc = "scan"
  /\ scan_list = {}
  /\ pc[w] = "idle"
  /\ m_pc' = "watching"
  /\ UNCHANGED <<scan_list, pipeVars, qVars, xVars, gVars, dVars, fVars, cVars>>

\* main() has just been called; the environment injects no failure.
StartupInit ==
  /\ Boot(MaxFaults)
  /\ NoSearch
  /\ NoExtract
  /\ NoCompletion
  /\ NoDocQuery
  /\ NoFts
  /\ NoCache
  /\ m_pc = "boot"
  /\ scan_list = {}

\* The steps of the one process_document_sync that runs at a time.
StartupPipeline ==
  \/ Stabilize("w1") \/ Validate("w1") \/ Dedup("w1") \/ RegisterDocument("w1")
  \/ EnqueueJob("w1") \/ Move("w1") \/ Ocr("w1") \/ Normalize("w1") \/ Classify("w1")
  \/ Review("w1") \/ Index("w1") \/ MarkDone("w1")
  \/ DlMove("w1") \/ DlLookup("w1")

StartupNext ==
  \/ \E n \in Names, c \in Contents : Arrive(n, c)
  \/ ListExisting
  \/ \E n \in Names : ScanStart("w1", n)
  \/ StartObserver("w1")
  \/ \E n \in Names : Start("w1", n)
  \/ StartupPipeline

StartupSpec == StartupInit /\ [][StartupNext]_vars

\* main() and the watcher thread keep running; nothing obliges a file to arrive.
StartupFairSpec ==
  /\ StartupSpec
  /\ WF_vars(ListExisting)
  /\ WF_vars(\E n \in Names : ScanStart("w1", n))
  /\ WF_vars(StartObserver("w1"))
  /\ WF_vars(\E n \in Names : Start("w1", n))
  /\ WF_vars(StartupPipeline)

\* process_document_sync is running on the file of this name.
TakenUp(n) == pc["w1"] # "idle" /\ filepath["w1"] = n

\* C33: every PDF that appears in the input location and stays there is
\* eventually taken up by the watcher, through the start-up scan or an arrival
\* notification, a file that arrives while the start-up scan is still
\* processing earlier files included.
C33_EveryInputFileIsTakenUp ==
  \A n \in Names : (input[n] # NoFile) ~> TakenUp(n)
====
